---- MODULE Spec2Model ----
(***************************************************************************)
(* Model of the VAE loss engine of lfxai (src/src/lfxai/models/losses.py): *)
(* the loss objects BetaHLoss and BtcvaeLoss with their step counter and   *)
(* recording cadence, the sink ("storer") they append to, the factory      *)
(* get_loss_f and the pure function linear_annealing; and of the          *)
(* experiment drivers of src/experiments (what they train, load, compute,  *)
(* write and plot).                                                        *)
(*                                                                         *)
(* Numbers.  Python floats are modelled by exact numbers: a rational is a  *)
(* pair <<n, d>> with d > 0 in lowest terms.  Floating-point rounding is   *)
(* not modelled.                                                           *)
(***************************************************************************)
EXTENDS Integers, Sequences, FiniteSets, TLC

VARIABLES
    args,      \* arguments of the call under way (pure functions, factory)
    loss_f,    \* the loss object: hyperparameters and n_train_steps
    storer,    \* the caller's sink: key -> sequence of recorded values
    ret,       \* outcome of the last call: value returned or error raised
    hist,      \* history: number of invocations made so far, by mode
    files      \* the files of the experiment's saving directory

vars == <<args, loss_f, storer, ret, hist, files>>

-----------------------------------------------------------------------------
(* Bounds of the model. *)

\* largest step a linear_annealing call is given
MaxStep == 4
\* largest annealing horizon (annealing_steps / steps_anneal)
MaxAnneal == 3

-----------------------------------------------------------------------------
(* Exact rational arithmetic. *)

Abs(x) == IF x < 0 THEN -x ELSE x

\* the greatest common divisor, by Euclid's algorithm
GCD[a \in Nat, b \in Nat] == IF b = 0 THEN a ELSE GCD[b, a % b]

\* the rational n/d (d # 0) in lowest terms with a positive denominator
RNorm(n, d) ==
    LET g == GCD[Abs(n), Abs(d)]
    IN  IF d < 0 THEN <<(-n) \div g, (-d) \div g>> ELSE <<n \div g, d \div g>>

RInt(n) == <<n, 1>>
RAdd(p, q) == RNorm(p[1] * q[2] + q[1] * p[2], p[2] * q[2])
RSub(p, q) == RNorm(p[1] * q[2] - q[1] * p[2], p[2] * q[2])
RMul(p, q) == RNorm(p[1] * q[1], p[2] * q[2])
RDiv(p, q) == RNorm(p[1] * q[2], p[2] * q[1])
RLe(p, q) == p[1] * q[2] <= q[1] * p[2]
RLt(p, q) == p[1] * q[2] < q[1] * p[2]
\* Python's min(a, b): b only when b < a
RMin(p, q) == IF RLt(q, p) THEN q ELSE p

-----------------------------------------------------------------------------
(* Exact numbers with logarithms.  A number is a rational combination of   *)
(* 1, ln 2, ln 3, ln 5 and ln pi: a function from Basis to rationals.  As  *)
(* these five reals are linearly independent over the rationals, two       *)
(* numbers are equal exactly when their coefficients are.                  *)

Basis == {"one", "ln2", "ln3", "ln5", "lnpi"}
Primes == [ln2 |-> 2, ln3 |-> 3, ln5 |-> 5]

NZero == [b \in Basis |-> <<0, 1>>]
NRat(q) == [NZero EXCEPT !["one"] = q]
NInt(n) == NRat(<<n, 1>>)
NAdd(x, y) == [b \in Basis |-> RAdd(x[b], y[b])]
NSub(x, y) == [b \in Basis |-> RSub(x[b], y[b])]
NScale(q, x) == [b \in Basis |-> RMul(q, x[b])]
NNeg(x) == NScale(<<-1, 1>>, x)

\* the exponent of the prime p in the positive integer n
Expo[n \in Nat, p \in Nat] == IF n % p = 0 THEN 1 + Expo[n \div p, p] ELSE 0

IPow[p \in Nat, k \in Nat] == IF k = 0 THEN 1 ELSE p * IPow[p, k - 1]

\* whether the positive rational q is a product of powers of 2, 3 and 5
Smooth(q) ==
    /\ q[1] = IPow[2, Expo[q[1], 2]] * IPow[3, Expo[q[1], 3]] * IPow[5, Expo[q[1], 5]]
    /\ q[2] = IPow[2, Expo[q[2], 2]] * IPow[3, Expo[q[2], 3]] * IPow[5, Expo[q[2], 5]]

\* ln q for a positive rational q with Smooth(q)
NLn(q) ==
    [b \in Basis |->
        IF b \in DOMAIN Primes
        THEN <<Expo[q[1], Primes[b]] - Expo[q[2], Primes[b]], 1>>
        ELSE <<0, 1>>]

\* p^k for an integer k of either sign
RPow(p, k) == IF k >= 0 THEN <<IPow[p, k], 1>> ELSE <<1, IPow[p, -k]>>

\* exp x for x = a ln 2 + b ln 3 + c ln 5 with integers a, b, c
NExp(x) ==
    RMul(RPow(2, x["ln2"][1]), RMul(RPow(3, x["ln3"][1]), RPow(5, x["ln5"][1])))

\* the sum of a sequence of numbers
NSum(s) ==
    LET acc[i \in 0 .. Len(s)] == IF i = 0 THEN NZero ELSE NAdd(acc[i - 1], s[i])
    IN  acc[Len(s)]

\* the sum of a sequence of rationals
RSum(s) ==
    LET acc[i \in 0 .. Len(s)] == IF i = 0 THEN <<0, 1>> ELSE RAdd(acc[i - 1], s[i])
    IN  acc[Len(s)]

\* a matrix (sequence of rows) as the sequence of its elements
Flatten(m) ==
    LET acc[i \in 0 .. Len(m)] == IF i = 0 THEN <<>> ELSE acc[i - 1] \o m[i]
    IN  acc[Len(m)]

-----------------------------------------------------------------------------
(* Outcomes of a call. *)

NoArgs == [op |-> "none"]
NoRet == [op |-> "none", err |-> "none"]
NoLoss == [kind |-> "none"]
\* the history of the invocations: their number, the number of training
\* ones, the annealing weight of the latest training one that returned, the
\* number of recording ones that returned, their latent dimensions, and the
\* number of training ones that failed
NoHist ==
    [calls |-> 0, train |-> 0, weight |-> <<0, 1>>, recorded |-> 0, dims |-> {},
     failed |-> 0]

-----------------------------------------------------------------------------
(* linear_annealing(init, fin, step, annealing_steps), lines 335-342.      *)
(* The result is [err, val]: err is "none" and val the value returned, or  *)
(* err is the exception raised.                                            *)

linear_annealing_early_assert(init, fin, step, annealing_steps) ==
    IF ~(fin > init) THEN [err |-> "AssertionError"]
    ELSE IF annealing_steps = 0 THEN [err |-> "none", val |-> RInt(fin)]
    ELSE [err |-> "none",
          val |-> RMin(RAdd(RInt(init), RNorm((fin - init) * step, annealing_steps)),
                       RInt(fin))]

linear_annealing_no_clamp(init, fin, step, annealing_steps) ==
    IF annealing_steps = 0 THEN [err |-> "none", val |-> RInt(fin)]
    ELSE IF ~(fin > init) THEN [err |-> "AssertionError"]
    ELSE [err |-> "none",
          val |-> RAdd(RInt(init), RNorm((fin - init) * step, annealing_steps))]

linear_annealing_no_zero_check(init, fin, step, annealing_steps) ==
    IF ~(fin > init) THEN [err |-> "AssertionError"]
    ELSE IF annealing_steps = 0 THEN [err |-> "ZeroDivisionError"]
    ELSE [err |-> "none",
          val |-> RMin(RAdd(RInt(init), RNorm((fin - init) * step, annealing_steps)),
                       RInt(fin))]

linear_annealing(init, fin, step, annealing_steps) ==
    IF annealing_steps = 0 THEN [err |-> "none", val |-> RInt(fin)]
    ELSE IF ~(fin > init) THEN [err |-> "AssertionError"]
    ELSE LET delta == fin - init
         IN  [err |-> "none",
              val |-> RMin(RAdd(RInt(init), RNorm(delta * step, annealing_steps)),
                           RInt(fin))]

-----------------------------------------------------------------------------
(* Specification SpecAnneal: linear_annealing on arbitrary arguments.      *)

AnnealVals == -1 .. 2
AnnealSteps == 0 .. MaxStep
AnnealHorizons == -1 .. MaxAnneal

AnnealArgs ==
    [op : {"linear_annealing"}, init : AnnealVals, fin : AnnealVals,
     step : AnnealSteps, annealing_steps : AnnealHorizons]

AnnealRet(a, prev) ==
    LET r == linear_annealing(a.init, a.fin, a.step, a.annealing_steps)
    IN  [op |-> "linear_annealing", err |-> r.err,
         val |-> IF r.err = "none" THEN r.val ELSE <<0, 1>>,
         prev |-> prev]   \* <<>> or <<value returned one step earlier>>

InitAnneal ==
    /\ args \in AnnealArgs
    /\ loss_f = NoLoss
    /\ storer = <<>>
    /\ ret = NoRet
    /\ hist = NoHist
    /\ files = {}

\* the call itself
AnnealCall ==
    /\ args.op = "linear_annealing"
    /\ ret.op = "none"
    /\ ret' = AnnealRet(args, <<>>)
    /\ UNCHANGED <<args, loss_f, storer, hist, files>>

\* the caller's next call, one step later with the other arguments unchanged
AnnealNextStep ==
    /\ args.op = "linear_annealing"
    /\ ret.op = "linear_annealing"
    /\ args.step < MaxStep
    /\ args' = [args EXCEPT !.step = @ + 1]
    /\ ret' = AnnealRet(args', IF ret.err = "none" THEN <<ret.val>> ELSE <<>>)
    /\ UNCHANGED <<loss_f, storer, hist, files>>

NextAnneal == AnnealCall \/ AnnealNextStep

SpecAnneal == InitAnneal /\ [][NextAnneal]_vars

AnnealReturned == ret.op = "linear_annealing" /\ ret.err = "none"

-----------------------------------------------------------------------------
(* C6: linear_annealing(init, fin, step, horizon), for step >= 0 and       *)
(* fin > init, returns fin when horizon is 0 and otherwise                 *)
(* min(init + (fin - init) * step / horizon, fin).  The value is stated    *)
(* here by cross-multiplication over the integers: with r = n/d the value  *)
(* returned and x = init + (fin - init) * step / horizon, r = fin when     *)
(* x >= fin and r = x otherwise.                                           *)
C6_AnnealFormula ==
    (ret.op = "linear_annealing" /\ args.fin > args.init /\ args.step >= 0) =>
        LET h == args.annealing_steps
            delta == args.fin - args.init
            \* sign-corrected so that comparisons multiply by a positive number
            sg == IF h < 0 THEN -1 ELSE 1
            xn == sg * (args.init * h + delta * args.step)
            xd == sg * h
        IN  /\ ret.err = "none"
            /\ h = 0 => ret.val = <<args.fin, 1>>
            /\ (h # 0 /\ xn >= args.fin * xd) => ret.val = <<args.fin, 1>>
            /\ (h # 0 /\ xn < args.fin * xd) => ret.val[1] * xd = xn * ret.val[2]

C6_Witness ==
    /\ AnnealReturned
    /\ args.fin > args.init
    /\ args.annealing_steps = 3
    /\ args.step = 2
    /\ args.init = 0 /\ args.fin = 1
    /\ ret.val = <<2, 3>>

(* C7: linear_annealing(0, 1, step, horizon) is non-decreasing in step for *)
(* every horizon >= 0, is 0 at step 0 when horizon > 0, is 1 for every     *)
(* step >= horizon, and is 1 for every step when horizon = 0.              *)
C7_AnnealRamp ==
    (/\ ret.op = "linear_annealing"
     /\ args.init = 0 /\ args.fin = 1
     /\ args.annealing_steps >= 0) =>
        /\ ret.err = "none"
        /\ ret.prev # <<>> => RLe(ret.prev[1], ret.val)
        /\ (args.step = 0 /\ args.annealing_steps > 0) => ret.val = <<0, 1>>
        /\ args.step >= args.annealing_steps => ret.val = <<1, 1>>
        /\ args.annealing_steps = 0 => ret.val = <<1, 1>>

C7_Witness ==
    /\ AnnealReturned
    /\ args.init = 0 /\ args.fin = 1
    /\ args.annealing_steps = 3
    /\ args.step = 3
    /\ ret.prev = << <<2, 3>> >>
    /\ ret.val = <<1, 1>>

(* C8 as stated: linear_annealing with final <= initial fails for every    *)
(* step and every horizon, horizon 0 included, and returns no coefficient. *)
C8_FailsAlways ==
    (ret.op = "linear_annealing" /\ args.fin <= args.init) => ret.err # "none"

(* C8 as amended: with final <= initial the call fails (the assertion)     *)
(* for every step and every horizon other than 0; with horizon 0 it        *)
(* returns final without checking the precondition.                        *)
C8_FailsUnlessHorizonZero ==
    (ret.op = "linear_annealing" /\ args.fin <= args.init) =>
        /\ args.annealing_steps # 0 => ret.err = "AssertionError"
        /\ args.annealing_steps = 0 =>
               (ret.err = "none" /\ ret.val = <<args.fin, 1>>)

C8_Witness ==
    /\ ret.op = "linear_annealing"
    /\ args.fin <= args.init
    /\ args.annealing_steps = 2
    /\ ret.err = "AssertionError"

-----------------------------------------------------------------------------
(* Construction of the loss objects, lines 54-58, 117-119 and 170-176.     *)
(* Hyperparameters are integers here (beta = 4 for 4, alpha = 1 for 1.0).  *)

\* defaults of the constructors' keyword parameters
DefaultRecordLossEvery == 50
DefaultStepsAnneal == 0
DefaultRecDist == "bernoulli"
DefaultBetaH == 4
DefaultAlpha == 1
DefaultBetaTC == 6
DefaultGamma == 1

LOSSES == {"betaH", "btcvae"}
RECON_DIST == {"bernoulli", "laplace", "gaussian"}

BaseVAELoss_init(record_loss_every, rec_dist, steps_anneal) ==
    [n_train_steps |-> 0,
     record_loss_every |-> record_loss_every,
     rec_dist |-> rec_dist,
     steps_anneal |-> steps_anneal]

\* f extended by the fields of g
Extend(f, g) ==
    [k \in (DOMAIN f) \cup (DOMAIN g) |-> IF k \in DOMAIN g THEN g[k] ELSE f[k]]

BetaHLoss_init(beta, record_loss_every, rec_dist, steps_anneal) ==
    Extend(BaseVAELoss_init(record_loss_every, rec_dist, steps_anneal),
           [kind |-> "betaH", beta |-> beta])

BtcvaeLoss_init(n_data, alpha, beta, gamma, is_mss, record_loss_every, rec_dist, steps_anneal) ==
    Extend(BaseVAELoss_init(record_loss_every, rec_dist, steps_anneal),
           [kind |-> "btcvae", n_data |-> n_data, beta |-> beta,
            alpha |-> alpha, gamma |-> gamma, is_mss |-> is_mss])

-----------------------------------------------------------------------------
(* get_loss_f(loss_name, **kwargs_parse), lines 16-34.  kwargs_parse is a  *)
(* function from the keys supplied to their values; reading a key that was *)
(* not supplied raises KeyError.  The result is [err, obj].                *)

get_loss_f_swapped_weights(loss_name, kwargs_parse) ==
    IF ~({"rec_dist", "reg_anneal"} \subseteq DOMAIN kwargs_parse)
    THEN [err |-> "KeyError", obj |-> NoLoss]
    ELSE IF loss_name = "betaH"
    THEN IF "betaH_B" \notin DOMAIN kwargs_parse
         THEN [err |-> "KeyError", obj |-> NoLoss]
         ELSE [err |-> "none",
               obj |-> BetaHLoss_init(kwargs_parse["betaH_B"], DefaultRecordLossEvery,
                                      kwargs_parse["rec_dist"],
                                      kwargs_parse["reg_anneal"])]
    ELSE IF loss_name = "btcvae"
    THEN IF ~({"n_data", "btcvae_A", "btcvae_B", "btcvae_G"}
                  \subseteq DOMAIN kwargs_parse)
         THEN [err |-> "KeyError", obj |-> NoLoss]
         ELSE [err |-> "none",
               obj |-> BtcvaeLoss_init(kwargs_parse["n_data"],
                                       kwargs_parse["btcvae_B"],
                                       kwargs_parse["btcvae_A"],
                                       kwargs_parse["btcvae_G"], TRUE,
                                       DefaultRecordLossEvery,
                                       kwargs_parse["rec_dist"],
                                       kwargs_parse["reg_anneal"])]
    ELSE [err |-> "ValueError", obj |-> NoLoss]

get_loss_f(loss_name, kwargs_parse) ==
    \* kwargs_all = dict(rec_dist=..., steps_anneal=kwargs_parse["reg_anneal"])
    IF ~({"rec_dist", "reg_anneal"} \subseteq DOMAIN kwargs_parse)
    THEN [err |-> "KeyError", obj |-> NoLoss]
    ELSE IF loss_name = "betaH"
    THEN IF "betaH_B" \notin DOMAIN kwargs_parse
         THEN [err |-> "KeyError", obj |-> NoLoss]
         ELSE [err |-> "none",
               obj |-> BetaHLoss_init(kwargs_parse["betaH_B"], DefaultRecordLossEvery,
                                      kwargs_parse["rec_dist"],
                                      kwargs_parse["reg_anneal"])]
    ELSE IF loss_name = "btcvae"
    THEN IF ~({"n_data", "btcvae_A", "btcvae_B", "btcvae_G"}
                  \subseteq DOMAIN kwargs_parse)
         THEN [err |-> "KeyError", obj |-> NoLoss]
         ELSE [err |-> "none",
               obj |-> BtcvaeLoss_init(kwargs_parse["n_data"],
                                       kwargs_parse["btcvae_A"],
                                       kwargs_parse["btcvae_B"],
                                       kwargs_parse["btcvae_G"], TRUE,
                                       DefaultRecordLossEvery,
                                       kwargs_parse["rec_dist"],
                                       kwargs_parse["reg_anneal"])]
    ELSE \* assert loss_name not in LOSSES holds here
         [err |-> "ValueError", obj |-> NoLoss]

-----------------------------------------------------------------------------
(* Specification SpecFactory: get_loss_f on arbitrary arguments.           *)

LossNames == {"betaH", "btcvae", "factor", "VAE"}
RecDistNames == RECON_DIST \cup {"poisson"}
KwKeys == {"rec_dist", "reg_anneal", "betaH_B", "n_data",
           "btcvae_A", "btcvae_B", "btcvae_G"}

FullKwargs ==
    [rec_dist : RecDistNames, reg_anneal : 0 .. MaxAnneal, betaH_B : {1, 4},
     n_data : {2, 4}, btcvae_A : {0, 1}, btcvae_B : {1, 6}, btcvae_G : {1, 2}]

\* all the keys, or all but one
KeySets == {KwKeys} \cup {KwKeys \ {k} : k \in KwKeys}

FactoryArgs ==
    {[op |-> "get_loss_f", loss_name |-> n, kwargs_parse |-> [k \in ks |-> f[k]]] :
        n \in LossNames, f \in FullKwargs, ks \in KeySets}

InitFactory ==
    /\ args \in FactoryArgs
    /\ loss_f = NoLoss
    /\ storer = <<>>
    /\ ret = NoRet
    /\ hist = NoHist
    /\ files = {}

FactoryCall ==
    /\ args.op = "get_loss_f"
    /\ ret.op = "none"
    /\ LET r == get_loss_f(args.loss_name, args.kwargs_parse)
       IN  /\ ret' = [op |-> "get_loss_f", err |-> r.err]
           /\ loss_f' = r.obj
    /\ UNCHANGED <<args, storer, hist, files>>

NextFactory == FactoryCall

SpecFactory == InitFactory /\ [][NextFactory]_vars

-----------------------------------------------------------------------------
(* C10: called with rec_dist and reg_anneal among its arguments, the       *)
(* factory fails with ValueError and returns no loss object for every loss *)
(* name other than "betaH" and "btcvae"; for "betaH" (betaH_B supplied) it *)
(* returns a simple loss with beta = betaH_B, for "btcvae" (n_data and the *)
(* three weights supplied) a decomposed loss with n_data, alpha =          *)
(* btcvae_A, beta = btcvae_B, gamma = btcvae_G; in both cases rec_dist and *)
(* steps_anneal = reg_anneal are the arguments' and the step counter is 0. *)
C10_Factory ==
    (/\ ret.op = "get_loss_f"
     /\ {"rec_dist", "reg_anneal"} \subseteq DOMAIN args.kwargs_parse) =>
        LET kw == args.kwargs_parse
        IN  /\ args.loss_name \notin {"betaH", "btcvae"} =>
                   (ret.err = "ValueError" /\ loss_f = NoLoss)
            /\ (args.loss_name = "betaH" /\ "betaH_B" \in DOMAIN kw) =>
                   /\ ret.err = "none"
                   /\ loss_f.kind = "betaH"
                   /\ loss_f.beta = kw["betaH_B"]
                   /\ loss_f.rec_dist = kw["rec_dist"]
                   /\ loss_f.steps_anneal = kw["reg_anneal"]
                   /\ loss_f.n_train_steps = 0
            /\ (/\ args.loss_name = "btcvae"
                /\ {"n_data", "btcvae_A", "btcvae_B", "btcvae_G"} \subseteq DOMAIN kw) =>
                   /\ ret.err = "none"
                   /\ loss_f.kind = "btcvae"
                   /\ loss_f.n_data = kw["n_data"]
                   /\ loss_f.alpha = kw["btcvae_A"]
                   /\ loss_f.beta = kw["btcvae_B"]
                   /\ loss_f.gamma = kw["btcvae_G"]
                   /\ loss_f.rec_dist = kw["rec_dist"]
                   /\ loss_f.steps_anneal = kw["reg_anneal"]
                   /\ loss_f.n_train_steps = 0

C10_Witness ==
    /\ ret.op = "get_loss_f"
    /\ args.loss_name = "btcvae"
    /\ DOMAIN args.kwargs_parse = KwKeys
    /\ args.kwargs_parse["btcvae_A"] = 0
    /\ args.kwargs_parse["btcvae_B"] = 6
    /\ ret.err = "none"
    /\ loss_f.kind = "btcvae" /\ loss_f.alpha = 0 /\ loss_f.beta = 6

C10_WitnessUnknown ==
    /\ ret.op = "get_loss_f"
    /\ args.loss_name = "factor"
    /\ DOMAIN args.kwargs_parse = KwKeys
    /\ ret.err = "ValueError"
    /\ loss_f = NoLoss

-----------------------------------------------------------------------------
(* The sink.  The caller's storer maps each key to the sequence of values  *)
(* appended so far (a defaultdict(list) in the trainer).  The storer       *)
(* argument of a function is [some |-> FALSE] for None, or                 *)
(* [some |-> TRUE, log |-> the mapping].                                   *)

\* largest latent dimension of a batch
MaxLatentDim == 2

KlKey(i) == <<"kl_loss_0", "kl_loss_1", "kl_loss_2", "kl_loss_3">>[i + 1]

StorerKeys ==
    {"loss", "recon_loss", "kl_loss", "mi_loss", "tc_loss", "dw_kl_loss"}
        \cup {KlKey(i) : i \in 0 .. MaxLatentDim - 1}

EmptyLog == [k \in StorerKeys |-> <<>>]
NoneStorer == [some |-> FALSE]
SomeStorer(log) == [some |-> TRUE, log |-> log]

StorerAppend_overwrite(st, key, v) ==
    IF st.some THEN SomeStorer([st.log EXCEPT ![key] = <<v>>]) ELSE st

\* storer[key].append(v) when storer is not None
StorerAppend(st, key, v) ==
    IF st.some THEN SomeStorer([st.log EXCEPT ![key] = Append(@, v)]) ELSE st

-----------------------------------------------------------------------------
(* The batches the caller feeds: [data, recon_data, mean, logvar,          *)
(* latent_sample].  data and recon_data are matrices batch x pixels of     *)
(* rationals (channels, height and width flattened: the code reads         *)
(* batch_size only); mean and latent_sample are matrices batch x           *)
(* latent_dim of rationals, logvar one of numbers ln v.                    *)

R(n) == <<n, 1>>
Half == <<1, 2>>

\* two samples, two pixels, two latent dimensions
Batch1 ==
    [data |-> << <<R(0), R(1)>>, <<Half, Half>> >>,
     recon_data |-> << <<Half, Half>>, <<Half, R(1)>> >>,
     mean |-> << <<R(1), R(0)>>, <<R(1), R(0)>> >>,
     logvar |-> << <<NLn(R(1)), NLn(R(4))>>, <<NLn(R(1)), NLn(R(4))>> >>,
     latent_sample |-> << <<R(0), R(1)>>, <<R(2), R(1)>> >>]

\* two samples, one pixel reconstructed exactly, one latent dimension
Batch2 ==
    [data |-> << <<R(1)>>, <<R(1)>> >>,
     recon_data |-> << <<R(1)>>, <<R(1)>> >>,
     mean |-> << <<R(0)>>, <<R(0)>> >>,
     logvar |-> << <<NLn(R(1))>>, <<NLn(R(4))>> >>,
     latent_sample |-> << <<R(0)>>, <<R(0)>> >>]

BatchData == <<Batch1, Batch2>>
Batches == 1 .. Len(BatchData)
NDataSet == {2, 4}

-----------------------------------------------------------------------------
(* _reconstruction_loss(data, recon_data, distribution, storer), lines     *)
(* 224-278.                                                                *)

\* -log x as torch's binary_cross_entropy takes it: clamped to at most 100
NegLogClamped(x) == IF x = <<0, 1>> THEN NInt(100) ELSE NNeg(NLn(x))

\* F.binary_cross_entropy(recon, data) of one element
BceElem(r, d) ==
    NAdd(NScale(d, NegLogClamped(r)),
         NScale(RSub(<<1, 1>>, d), NegLogClamped(RSub(<<1, 1>>, r))))

\* F.mse_loss(recon * 255, data * 255) of one element
MseElem255(r, d) ==
    LET e == RSub(RMul(<<255, 1>>, r), RMul(<<255, 1>>, d))
    IN  NRat(RMul(e, e))

L1Elem_signed(r, d) == NRat(RSub(r, d))

\* F.l1_loss(recon, data) of one element
L1Elem(r, d) ==
    LET e == RSub(r, d)
    IN  NRat(<<Abs(e[1]), e[2]>>)

\* the elementwise loss F.binary_cross_entropy, F.mse_loss or F.l1_loss
ElemLoss(F, r, d) ==
    IF F = "binary_cross_entropy" THEN BceElem(r, d)
    ELSE IF F = "mse_loss" THEN MseElem255(r, d)
    ELSE L1Elem(r, d)

\* reduction="sum" of the elementwise loss F over the batch
SumOver(F, recon_data, data) ==
    LET r == Flatten(recon_data)
        d == Flatten(data)
    IN  NSum([i \in 1 .. Len(r) |-> ElemLoss(F, r[i], d[i])])

\* lines 253-273: [err, loss], the loss per image or the error raised
ReconLoss_fallback(data, recon_data, distribution) ==
    LET batch_size == Len(recon_data)
    IN  [err |-> "none",
         loss |-> NScale(<<1, batch_size>>, SumOver("binary_cross_entropy", recon_data, data))]

ReconLoss_per_element(data, recon_data, distribution) ==
    LET n_elem == Len(Flatten(recon_data))
    IN  IF distribution = "bernoulli"
        THEN [err |-> "none",
              loss |-> NScale(<<1, n_elem>>,
                              SumOver("binary_cross_entropy", recon_data, data))]
        ELSE IF distribution = "gaussian"
        THEN [err |-> "none",
              loss |-> NScale(<<1, n_elem>>,
                              NScale(<<1, 255>>, SumOver("mse_loss", recon_data, data)))]
        ELSE IF distribution = "laplace"
        THEN [err |-> "none",
              loss |-> NScale(<<3, n_elem>>, SumOver("l1_loss", recon_data, data))]
        ELSE [err |-> "ValueError", loss |-> NZero]

ReconLoss_mask_inverted(data, recon_data, distribution) ==
    LET batch_size == Len(recon_data)
    IN  IF distribution = "bernoulli"
        THEN [err |-> "none",
              loss |-> NScale(<<1, batch_size>>, SumOver("binary_cross_entropy", recon_data, data))]
        ELSE IF distribution = "gaussian"
        THEN [err |-> "none",
              loss |-> NScale(<<1, batch_size>>,
                              NScale(<<1, 255>>, SumOver("mse_loss", recon_data, data)))]
        ELSE IF distribution = "laplace"
        THEN LET l1 == SumOver("l1_loss", recon_data, data)
                 loss == NScale(<<3, 1>>, l1)
                 masked == IF loss = NZero THEN NScale(<<1, 1>>, loss)
                           ELSE NScale(<<0, 1>>, loss)
             IN  [err |-> "none", loss |-> NScale(<<1, batch_size>>, masked)]
        ELSE [err |-> "ValueError", loss |-> NZero]

ReconLoss(data, recon_data, distribution) ==
    LET batch_size == Len(recon_data)
    IN  IF distribution = "bernoulli"
        THEN [err |-> "none",
              loss |-> NScale(<<1, batch_size>>, SumOver("binary_cross_entropy", recon_data, data))]
        ELSE IF distribution = "gaussian"
        THEN [err |-> "none",
              loss |-> NScale(<<1, batch_size>>,
                              NScale(<<1, 255>>, SumOver("mse_loss", recon_data, data)))]
        ELSE IF distribution = "laplace"
        THEN LET l1 == SumOver("l1_loss", recon_data, data)
                 loss == NScale(<<3, 1>>, l1)
                 \* loss * (loss != 0)
                 masked == IF loss # NZero THEN NScale(<<1, 1>>, loss)
                           ELSE NScale(<<0, 1>>, loss)
             IN  [err |-> "none", loss |-> NScale(<<1, batch_size>>, masked)]
        ELSE \* assert distribution not in RECON_DIST holds here
             [err |-> "ValueError", loss |-> NZero]

\* ReconLoss of every batch under every distribution name, computed once
ReconTable ==
    [b \in Batches |->
        [d \in RecDistNames |->
            ReconLoss(BatchData[b].data, BatchData[b].recon_data, d)]]

\* lines 275-278, v being the ReconLoss of the batch: [err, loss, storer]
reconstruction_loss(v, st) ==
    IF v.err # "none" THEN [err |-> v.err, loss |-> v.loss, storer |-> st]
    ELSE [err |-> "none", loss |-> v.loss,
          storer |-> StorerAppend(st, "recon_loss", v.loss)]

-----------------------------------------------------------------------------
(* _kl_normal_loss(mean, logvar, storer), lines 281-306.                   *)

\* the mean over the batch (dim 0) of column i of a matrix of numbers
ColumnMean(m, i) == NScale(<<1, Len(m)>>, NSum([b \in 1 .. Len(m) |-> m[b][i]]))

KlElem_plus_one(mu, lv) ==
    NAdd(NSub(NInt(1), lv), NAdd(NRat(RMul(mu, mu)), NRat(NExp(lv))))

\* -1 - logvar + mean.pow(2) + logvar.exp() of one element
KlElem(mu, lv) ==
    NAdd(NSub(NInt(-1), lv), NAdd(NRat(RMul(mu, mu)), NRat(NExp(lv))))

\* lines 296-299: [total, latent], total_kl and latent_kl
KlNormal(mean, logvar) ==
    LET latent_dim == Len(mean[1])
        elems == [b \in 1 .. Len(mean) |->
                     [i \in 1 .. latent_dim |-> KlElem(mean[b][i], logvar[b][i])]]
        latent_kl == [i \in 1 .. latent_dim |-> NScale(<<1, 2>>, ColumnMean(elems, i))]
    IN  [total |-> NSum(latent_kl), latent |-> latent_kl]

\* KlNormal of every batch, computed once
KlTable == [b \in Batches |-> KlNormal(BatchData[b].mean, BatchData[b].logvar)]

\* for i in range(latent_dim): storer["kl_loss_" + str(i)].append(latent_kl[i])
AppendLatentKl_skip_first(st, latent_kl) ==
    LET acc[i \in 1 .. Len(latent_kl)] ==
            IF i = 1 THEN st ELSE StorerAppend(acc[i - 1], KlKey(i - 1), latent_kl[i])
    IN  acc[Len(latent_kl)]

AppendLatentKl(st, latent_kl) ==
    LET acc[i \in 0 .. Len(latent_kl)] ==
            IF i = 0 THEN st ELSE StorerAppend(acc[i - 1], KlKey(i - 1), latent_kl[i])
    IN  acc[Len(latent_kl)]

\* lines 301-306, v being the KlNormal of the batch: [total, storer]
kl_normal_loss(v, st) ==
    [total |-> v.total,
     storer |-> IF st.some
                THEN AppendLatentKl(StorerAppend(st, "kl_loss", v.total), v.latent)
                ELSE st]

-----------------------------------------------------------------------------
(* BaseVAELoss._pre_call(is_train, storer), lines 88-97.  The result is    *)
(* [err, n_train_steps, storer]: the counter after the call and the storer *)
(* handed on to the computation.                                           *)

\* Python's a % b for b # 0: the result has the sign of b
PyMod(a, b) == IF b > 0 THEN a % b ELSE -((-a) % (-b))

pre_call_counts_eval(obj, is_train, st) ==
    LET n == obj.n_train_steps + 1
    IN  IF ~is_train THEN [err |-> "none", n_train_steps |-> n, storer |-> st]
        ELSE IF obj.record_loss_every = 0
        THEN [err |-> "ZeroDivisionError", n_train_steps |-> n, storer |-> st]
        ELSE IF PyMod(n, obj.record_loss_every) = 1
        THEN [err |-> "none", n_train_steps |-> n, storer |-> st]
        ELSE [err |-> "none", n_train_steps |-> n, storer |-> NoneStorer]

pre_call_mod_zero(obj, is_train, st) ==
    LET n == IF is_train THEN obj.n_train_steps + 1 ELSE obj.n_train_steps
    IN  IF ~is_train THEN [err |-> "none", n_train_steps |-> n, storer |-> st]
        ELSE IF obj.record_loss_every = 0
        THEN [err |-> "ZeroDivisionError", n_train_steps |-> n, storer |-> st]
        ELSE IF PyMod(n, obj.record_loss_every) = 0
        THEN [err |-> "none", n_train_steps |-> n, storer |-> st]
        ELSE [err |-> "none", n_train_steps |-> n, storer |-> NoneStorer]

pre_call_abs_cadence(obj, is_train, st) ==
    LET n == IF is_train THEN obj.n_train_steps + 1 ELSE obj.n_train_steps
    IN  IF ~is_train THEN [err |-> "none", n_train_steps |-> n, storer |-> st]
        ELSE IF obj.record_loss_every = 0
        THEN [err |-> "ZeroDivisionError", n_train_steps |-> n, storer |-> st]
        ELSE IF n % Abs(obj.record_loss_every) = 1 % Abs(obj.record_loss_every)
        THEN [err |-> "none", n_train_steps |-> n, storer |-> st]
        ELSE [err |-> "none", n_train_steps |-> n, storer |-> NoneStorer]

pre_call(obj, is_train, st) ==
    LET n == IF is_train THEN obj.n_train_steps + 1 ELSE obj.n_train_steps
    IN  IF ~is_train THEN [err |-> "none", n_train_steps |-> n, storer |-> st]
        ELSE IF obj.record_loss_every = 0
        THEN \* n_train_steps % 0
             [err |-> "ZeroDivisionError", n_train_steps |-> n, storer |-> st]
        ELSE IF PyMod(n, obj.record_loss_every) = 1
        THEN [err |-> "none", n_train_steps |-> n, storer |-> st]
        ELSE \* storer = None
             [err |-> "none", n_train_steps |-> n, storer |-> NoneStorer]

-----------------------------------------------------------------------------
(* The Gaussian densities of lfxai.utils.math, which losses.py imports:    *)
(* log_density_gaussian, matrix_log_density_gaussian and                   *)
(* log_importance_weight_matrix (the minibatch stratified sampling weights *)
(* of Chen et al.).                                                        *)

\* log(2 pi)
Log2Pi == [NLn(<<2, 1>>) EXCEPT !["lnpi"] = <<1, 1>>]

\* log N(x; mu, exp(logvar)) = -0.5 (log 2pi + logvar) - 0.5 (x - mu)^2 exp(-logvar)
log_density_gaussian(x, mu, logvar) ==
    LET normalization == NScale(<<-1, 2>>, NAdd(Log2Pi, logvar))
        inv_var == NExp(NNeg(logvar))
        e == RSub(x, mu)
    IN  NSub(normalization, NRat(RMul(<<1, 2>>, RMul(RMul(e, e), inv_var))))

\* [i][j][d]: the density of sample i under the posterior of batch element j
matrix_log_density_gaussian(x, mu, logvar) ==
    [i \in 1 .. Len(x) |->
        [j \in 1 .. Len(mu) |->
            [d \in 1 .. Len(x[i]) |->
                log_density_gaussian(x[i][d], mu[j][d], logvar[j][d])]]]

\* the weights W (before the logarithm), rows and columns counted from 1
importance_weight_matrix(batch_size, dataset_size) ==
    LET N == dataset_size
        M == batch_size - 1
        strat_weight == RNorm(N - M, N * M)
    IN  [i \in 1 .. batch_size |->
            [j \in 1 .. batch_size |->
                IF i = M /\ j = 1 THEN strat_weight      \* W[M - 1, 0]
                ELSE IF j = 1 THEN <<1, N>>              \* W.view(-1)[::M + 1]
                ELSE IF j = 2 THEN strat_weight          \* W.view(-1)[1::M + 1]
                ELSE <<1, M>>]]

\* torch.logsumexp of a sequence of numbers that differ from the first by
\* integer combinations of ln 2, ln 3 and ln 5
LogSumExp(v) ==
    NAdd(v[1], NLn(RSum([j \in 1 .. Len(v) |-> NExp(NSub(v[j], v[1]))])))

\* whether LogSumExp(vs) is exact in this number system
LogSumExpExact(v) ==
    /\ \A j \in 1 .. Len(v) :
          \A df \in {NSub(v[j], v[1])} :
              /\ df["one"] = <<0, 1>> /\ df["lnpi"] = <<0, 1>>
              /\ \A b \in DOMAIN Primes : df[b][2] = 1
    /\ Smooth(RSum([j \in 1 .. Len(v) |-> NExp(NSub(v[j], v[1]))]))

-----------------------------------------------------------------------------
(* _get_log_pz_qz_prodzi_qzCx(latent_sample, latent_dist, n_data, is_mss), *)
(* lines 347-370.  The result is four vectors over the batch.              *)

NMean(v) == NScale(<<1, Len(v)>>, NSum(v))

\* mat_log_qz, with the importance weights added when is_mss
MatLogQz_always_weighted(latent_sample, mean, logvar, n_data, is_mss) ==
    LET batch_size == Len(latent_sample)
        mat == matrix_log_density_gaussian(latent_sample, mean, logvar)
        W == importance_weight_matrix(batch_size, n_data)
    IN  [i \in 1 .. batch_size |->
            [j \in 1 .. batch_size |->
                [d \in 1 .. Len(mat[i][j]) |-> NAdd(mat[i][j][d], NLn(W[i][j]))]]]

MatLogQz(latent_sample, mean, logvar, n_data, is_mss) ==
    LET batch_size == Len(latent_sample)
        mat == matrix_log_density_gaussian(latent_sample, mean, logvar)
        W == importance_weight_matrix(batch_size, n_data)
    IN  IF is_mss
        THEN [i \in 1 .. batch_size |->
                 [j \in 1 .. batch_size |->
                     [d \in 1 .. Len(mat[i][j]) |-> NAdd(mat[i][j][d], NLn(W[i][j]))]]]
        ELSE mat

get_log_pz_qz_prodzi_qzCx(latent_sample, mean, logvar, n_data, is_mss) ==
    LET batch_size == Len(latent_sample)
        hidden_dim == Len(latent_sample[1])
        B == 1 .. batch_size
        D == 1 .. hidden_dim
        mat_log_qz == MatLogQz(latent_sample, mean, logvar, n_data, is_mss)
    IN  [log_q_zCx |->
            [i \in B |-> NSum([d \in D |->
                log_density_gaussian(latent_sample[i][d], mean[i][d], logvar[i][d])])],
         log_pz |->
            [i \in B |-> NSum([d \in D |->
                log_density_gaussian(latent_sample[i][d], <<0, 1>>, NZero)])],
         log_qz |->
            [i \in B |-> LogSumExp([j \in B |-> NSum(mat_log_qz[i][j])])],
         log_prod_qzi |->
            [i \in B |-> NSum([d \in D |->
                LogSumExp([j \in B |-> mat_log_qz[i][j][d]])])]]

\* whether every logsumexp of the decomposition is exact in this number system
DecompExact(latent_sample, mean, logvar, n_data, is_mss) ==
    LET B == 1 .. Len(latent_sample)
        D == 1 .. Len(latent_sample[1])
        mat_log_qz == MatLogQz(latent_sample, mean, logvar, n_data, is_mss)
        W == importance_weight_matrix(Len(latent_sample), n_data)
    IN  /\ is_mss => \A i \in B, j \in B : W[i][j][1] > 0 /\ Smooth(W[i][j])
        /\ \A i \in B :
               /\ LogSumExpExact([j \in B |-> NSum(mat_log_qz[i][j])])
               /\ \A d \in D : LogSumExpExact([j \in B |-> mat_log_qz[i][j][d]])

\* the decomposition of every batch for every n_data and is_mss, computed once
DecompTable ==
    [b \in Batches |->
        [nd \in NDataSet |->
            [mss \in BOOLEAN |->
                get_log_pz_qz_prodzi_qzCx(BatchData[b].latent_sample, BatchData[b].mean,
                                          BatchData[b].logvar, nd, mss)]]]

\* v1 - v2, elementwise
VSub(v1, v2) == [i \in 1 .. Len(v1) |-> NSub(v1[i], v2[i])]

\* mi_loss, tc_loss and dw_kl_loss of a decomposition, lines 190-195
KlTerms_tc_from_pz(q) ==
    [mi_loss |-> NMean(VSub(q.log_q_zCx, q.log_qz)),
     tc_loss |-> NMean(VSub(q.log_qz, q.log_pz)),
     dw_kl_loss |-> NMean(VSub(q.log_prod_qzi, q.log_pz))]

KlTerms(q) ==
    [mi_loss |-> NMean(VSub(q.log_q_zCx, q.log_qz)),
     tc_loss |-> NMean(VSub(q.log_qz, q.log_prod_qzi)),
     dw_kl_loss |-> NMean(VSub(q.log_prod_qzi, q.log_pz))]

TermsTable ==
    [b \in Batches |->
        [nd \in NDataSet |-> [mss \in BOOLEAN |-> KlTerms(DecompTable[b][nd][mss])]]]

\* the batches are chosen so that the arithmetic above is exact on them
BatchesExact ==
    \A b \in Batches, nd \in NDataSet, mss \in BOOLEAN :
        DecompExact(BatchData[b].latent_sample, BatchData[b].mean,
                    BatchData[b].logvar, nd, mss)

-----------------------------------------------------------------------------
(* The loss invocations on batch b with storer argument st.  The result is *)
(* the outcome of the invocation: the error raised or the loss returned,   *)
(* the counter and the storer after it, whether _pre_call passed the       *)
(* storer on, and the intermediate values.                                 *)

Failed_rolls_back(e, n, st, passed) ==
    [err |-> e, n_train_steps |-> IF n > 0 THEN n - 1 ELSE n, storer |-> st,
     passed |-> passed,
     loss |-> NZero, rec_loss |-> NZero, kl_loss |-> NZero, anneal_reg |-> <<0, 1>>,
     mi_loss |-> NZero, tc_loss |-> NZero, dw_kl_loss |-> NZero]

Failed(e, n, st, passed) ==
    [err |-> e, n_train_steps |-> n, storer |-> st, passed |-> passed,
     loss |-> NZero, rec_loss |-> NZero, kl_loss |-> NZero, anneal_reg |-> <<0, 1>>,
     mi_loss |-> NZero, tc_loss |-> NZero, dw_kl_loss |-> NZero]

AnnealReg_stale_step(n, steps_anneal, is_train) ==
    IF is_train THEN linear_annealing(0, 1, n - 1, steps_anneal).val
    ELSE <<1, 1>>

\* anneal_reg, lines 128-132 and 197-201; n is self.n_train_steps
AnnealReg(n, steps_anneal, is_train) ==
    IF is_train THEN linear_annealing(0, 1, n, steps_anneal).val
    ELSE <<1, 1>>

\* loss = rec_loss + anneal_reg * (self.beta * kl_loss), line 133
BetaHTotal_anneal_all(rec_loss, anneal_reg, beta, kl_loss) ==
    NScale(anneal_reg, NAdd(rec_loss, NScale(<<beta, 1>>, kl_loss)))

BetaHTotal(rec_loss, anneal_reg, beta, kl_loss) ==
    NAdd(rec_loss, NScale(anneal_reg, NScale(<<beta, 1>>, kl_loss)))

\* lines 121-137 after _pre_call returned pc, on a batch whose ReconLoss is
\* rec and whose KlNormal is klv
BetaHLoss_body(obj, is_train, st, pc, rec, klv) ==
    LET n == pc.n_train_steps
        rl == reconstruction_loss(rec, pc.storer)
        kl == kl_normal_loss(klv, rl.storer)
        anneal_reg == AnnealReg(n, obj.steps_anneal, is_train)
        loss == BetaHTotal(rec.loss, anneal_reg, obj.beta, klv.total)
    IN  IF pc.err # "none" THEN Failed(pc.err, n, st, FALSE)
        ELSE IF rec.err # "none" THEN Failed(rec.err, n, st, pc.storer.some)
        ELSE [err |-> "none", n_train_steps |-> n,
              storer |-> StorerAppend(kl.storer, "loss", loss),
              passed |-> pc.storer.some,
              loss |-> loss, rec_loss |-> rec.loss, kl_loss |-> klv.total,
              anneal_reg |-> anneal_reg,
              mi_loss |-> NZero, tc_loss |-> NZero, dw_kl_loss |-> NZero]

\* BetaHLoss.__call__ on batch b, lines 121-137
BetaHLoss_call(obj, b, is_train, st) ==
    BetaHLoss_body(obj, is_train, st, pre_call(obj, is_train, st),
                   ReconTable[b][obj.rec_dist], KlTable[b])

\* the total loss, lines 204-208
BtcvaeTotal_anneal_all(rec_loss, alpha, mi_loss, beta, tc_loss, anneal_reg, gamma, dw_kl_loss) ==
    NAdd(rec_loss,
         NScale(anneal_reg,
                NAdd(NScale(<<alpha, 1>>, mi_loss),
                     NAdd(NScale(<<beta, 1>>, tc_loss),
                          NScale(<<gamma, 1>>, dw_kl_loss)))))

BtcvaeTotal(rec_loss, alpha, mi_loss, beta, tc_loss, anneal_reg, gamma, dw_kl_loss) ==
    NAdd(rec_loss,
         NAdd(NScale(<<alpha, 1>>, mi_loss),
              NAdd(NScale(<<beta, 1>>, tc_loss),
                   NScale(RMul(anneal_reg, <<gamma, 1>>), dw_kl_loss))))

BtcvaeLoss_body_default_sample(obj, is_train, st, has_sample, pc, rec, klv, t) ==
    LET n == pc.n_train_steps
        rl == reconstruction_loss(rec, pc.storer)
        anneal_reg == AnnealReg(n, obj.steps_anneal, is_train)
        loss == BtcvaeTotal(rec.loss, obj.alpha, t.mi_loss, obj.beta, t.tc_loss,
                            anneal_reg, obj.gamma, t.dw_kl_loss)
        st4 == StorerAppend(StorerAppend(StorerAppend(StorerAppend(
                   rl.storer, "loss", loss), "mi_loss", t.mi_loss),
                   "tc_loss", t.tc_loss), "dw_kl_loss", t.dw_kl_loss)
        kl == kl_normal_loss(klv, st4)
    IN  IF pc.err # "none" THEN Failed(pc.err, n, st, FALSE)
        ELSE IF rec.err # "none" THEN Failed(rec.err, n, st, pc.storer.some)
        ELSE [err |-> "none", n_train_steps |-> n,
              storer |-> IF pc.storer.some THEN kl.storer ELSE pc.storer,
              passed |-> pc.storer.some,
              loss |-> loss, rec_loss |-> rec.loss,
              kl_loss |-> IF pc.storer.some THEN klv.total ELSE NZero,
              anneal_reg |-> anneal_reg,
              mi_loss |-> t.mi_loss, tc_loss |-> t.tc_loss,
              dw_kl_loss |-> t.dw_kl_loss]

BtcvaeLoss_body_adds_diagnostic(obj, is_train, st, has_sample, pc, rec, klv, t) ==
    LET n == pc.n_train_steps
        rl == reconstruction_loss(rec, pc.storer)
        anneal_reg == AnnealReg(n, obj.steps_anneal, is_train)
        total == BtcvaeTotal(rec.loss, obj.alpha, t.mi_loss, obj.beta, t.tc_loss,
                             anneal_reg, obj.gamma, t.dw_kl_loss)
        loss == IF pc.storer.some THEN NAdd(total, klv.total) ELSE total
        st4 == StorerAppend(StorerAppend(StorerAppend(StorerAppend(
                   rl.storer, "loss", loss), "mi_loss", t.mi_loss),
                   "tc_loss", t.tc_loss), "dw_kl_loss", t.dw_kl_loss)
        kl == kl_normal_loss(klv, st4)
    IN  IF pc.err # "none" THEN Failed(pc.err, n, st, FALSE)
        ELSE IF ~has_sample THEN Failed("AttributeError", n, st, pc.storer.some)
        ELSE IF rec.err # "none" THEN Failed(rec.err, n, st, pc.storer.some)
        ELSE [err |-> "none", n_train_steps |-> n,
              storer |-> IF pc.storer.some THEN kl.storer ELSE pc.storer,
              passed |-> pc.storer.some,
              loss |-> loss, rec_loss |-> rec.loss,
              kl_loss |-> IF pc.storer.some THEN klv.total ELSE NZero,
              anneal_reg |-> anneal_reg,
              mi_loss |-> t.mi_loss, tc_loss |-> t.tc_loss,
              dw_kl_loss |-> t.dw_kl_loss]

\* lines 178-218 after _pre_call returned pc, on a batch whose ReconLoss is
\* rec, whose KlNormal is klv and whose KlTerms are t
BtcvaeLoss_body(obj, is_train, st, has_sample, pc, rec, klv, t) ==
    LET n == pc.n_train_steps
        rl == reconstruction_loss(rec, pc.storer)
        anneal_reg == AnnealReg(n, obj.steps_anneal, is_train)
        loss == BtcvaeTotal(rec.loss, obj.alpha, t.mi_loss, obj.beta, t.tc_loss,
                            anneal_reg, obj.gamma, t.dw_kl_loss)
        st4 == StorerAppend(StorerAppend(StorerAppend(StorerAppend(
                   rl.storer, "loss", loss), "mi_loss", t.mi_loss),
                   "tc_loss", t.tc_loss), "dw_kl_loss", t.dw_kl_loss)
        \* computed for storing only, and only when storer is not None
        kl == kl_normal_loss(klv, st4)
    IN  IF pc.err # "none" THEN Failed(pc.err, n, st, FALSE)
        ELSE IF ~has_sample
        THEN \* latent_sample.shape of None
             Failed("AttributeError", n, st, pc.storer.some)
        ELSE IF rec.err # "none" THEN Failed(rec.err, n, st, pc.storer.some)
        ELSE [err |-> "none", n_train_steps |-> n,
              storer |-> IF pc.storer.some THEN kl.storer ELSE pc.storer,
              passed |-> pc.storer.some,
              loss |-> loss, rec_loss |-> rec.loss,
              kl_loss |-> IF pc.storer.some THEN klv.total ELSE NZero,
              anneal_reg |-> anneal_reg,
              mi_loss |-> t.mi_loss, tc_loss |-> t.tc_loss,
              dw_kl_loss |-> t.dw_kl_loss]

\* BtcvaeLoss.__call__ on batch b, lines 178-218; has_sample: latent_sample
\* is not None
BtcvaeLoss_call(obj, b, is_train, st, has_sample) ==
    BtcvaeLoss_body(obj, is_train, st, has_sample, pre_call(obj, is_train, st),
                    ReconTable[b][obj.rec_dist], KlTable[b],
                    TermsTable[b][obj.n_data][obj.is_mss])

-----------------------------------------------------------------------------
(* Specification Spec: a loss object, freshly constructed, invoked by its  *)
(* caller on a sequence of batches in training and evaluation mode, with   *)
(* and without a sink.                                                     *)

\* number of invocations of a run
MaxCalls == 4
\* largest record_loss_every
MaxCadence == 3
\* largest steps_anneal of a loss object
MaxStepsAnneal == 3

\* record_loss_every: positive, zero and negative
Cadences == (1 .. MaxCadence) \cup {0, -2}

\* (record_loss_every, steps_anneal, rec_dist) of the objects constructed:
\* every cadence, every horizon, every distribution name, and an object
\* wrong in both its cadence and its distribution
BaseParams ==
    {<<k, MaxStepsAnneal, "bernoulli">> : k \in Cadences}
        \cup {<<2, h, "bernoulli">> : h \in 0 .. MaxStepsAnneal}
        \cup {<<2, 1, d>> : d \in RecDistNames}
        \cup {<<0, 0, "poisson">>}

BetaHObjects ==
    {BetaHLoss_init(DefaultBetaH, p[1], p[3], p[2]) : p \in BaseParams}
        \cup {BetaHLoss_init(1, 2, "gaussian", 1)}

BtcvaeObjects ==
    {BtcvaeLoss_init(4, 2, 3, 5, TRUE, p[1], p[3], p[2]) : p \in BaseParams}
        \cup {BtcvaeLoss_init(nd, DefaultAlpha, DefaultBetaTC, DefaultGamma, mss,
                              2, "laplace", 1) :
                 nd \in NDataSet, mss \in BOOLEAN}

Init ==
    /\ args = NoArgs
    /\ loss_f \in BetaHObjects \cup BtcvaeObjects
    /\ storer = EmptyLog
    /\ ret = NoRet
    /\ hist = NoHist
    /\ files = {}

Invoked_consumes_horizon(out, b, is_train, given, has_sample) ==
    /\ loss_f' = [loss_f EXCEPT !.n_train_steps = out.n_train_steps,
                                !.steps_anneal = IF is_train /\ @ > 0 THEN @ - 1 ELSE @]
    /\ storer' = IF out.storer.some THEN out.storer.log ELSE storer
    /\ ret' = [op |-> "call", err |-> out.err, is_train |-> is_train,
               given |-> given, has_sample |-> has_sample, passed |-> out.passed,
               batch |-> b, loss |-> out.loss, rec_loss |-> out.rec_loss,
               kl_loss |-> out.kl_loss, anneal_reg |-> out.anneal_reg,
               mi_loss |-> out.mi_loss, tc_loss |-> out.tc_loss,
               dw_kl_loss |-> out.dw_kl_loss,
               before |-> storer]
    /\ hist' = [calls |-> hist.calls + 1,
                train |-> hist.train + (IF is_train THEN 1 ELSE 0),
                weight |-> IF is_train /\ out.err = "none"
                           THEN out.anneal_reg ELSE hist.weight,
                recorded |-> hist.recorded
                                + (IF out.passed /\ out.err = "none" THEN 1 ELSE 0),
                dims |-> IF out.passed /\ out.err = "none"
                         THEN hist.dims \cup {Len(BatchData[b].mean[1])}
                         ELSE hist.dims,
                failed |-> hist.failed
                              + (IF is_train /\ out.err # "none" THEN 1 ELSE 0)]
    /\ UNCHANGED <<args, files>>

\* the state after an invocation with outcome out
Invoked(out, b, is_train, given, has_sample) ==
    /\ loss_f' = [loss_f EXCEPT !.n_train_steps = out.n_train_steps]
    /\ storer' = IF out.storer.some THEN out.storer.log ELSE storer
    /\ ret' = [op |-> "call", err |-> out.err, is_train |-> is_train,
               given |-> given, has_sample |-> has_sample, passed |-> out.passed,
               batch |-> b, loss |-> out.loss, rec_loss |-> out.rec_loss,
               kl_loss |-> out.kl_loss, anneal_reg |-> out.anneal_reg,
               mi_loss |-> out.mi_loss, tc_loss |-> out.tc_loss,
               dw_kl_loss |-> out.dw_kl_loss,
               before |-> storer]
    /\ hist' = [calls |-> hist.calls + 1,
                train |-> hist.train + (IF is_train THEN 1 ELSE 0),
                weight |-> IF is_train /\ out.err = "none"
                           THEN out.anneal_reg ELSE hist.weight,
                recorded |-> hist.recorded
                                + (IF out.passed /\ out.err = "none" THEN 1 ELSE 0),
                dims |-> IF out.passed /\ out.err = "none"
                         THEN hist.dims \cup {Len(BatchData[b].mean[1])}
                         ELSE hist.dims,
                failed |-> hist.failed
                              + (IF is_train /\ out.err # "none" THEN 1 ELSE 0)]
    /\ UNCHANGED <<args, files>>

BetaHCall ==
    /\ loss_f.kind = "betaH"
    /\ hist.calls < MaxCalls
    /\ \E b \in Batches, is_train \in BOOLEAN, given \in BOOLEAN :
          \E out \in {BetaHLoss_call(loss_f, b, is_train,
                                     IF given THEN SomeStorer(storer) ELSE NoneStorer)} :
             Invoked(out, b, is_train, given, TRUE)

BtcvaeCall ==
    /\ loss_f.kind = "btcvae"
    /\ hist.calls < MaxCalls
    /\ \E b \in Batches, is_train \in BOOLEAN, given \in BOOLEAN, has_sample \in BOOLEAN :
          \* a caller that leaves latent_sample out: one such call per mode
          /\ ~has_sample => (b = 1 /\ given)
          /\ \E out \in {BtcvaeLoss_call(loss_f, b, is_train,
                                         IF given THEN SomeStorer(storer) ELSE NoneStorer,
                                         has_sample)} :
                Invoked(out, b, is_train, given, has_sample)

Next == BetaHCall \/ BtcvaeCall

Spec == Init /\ [][Next]_vars

-----------------------------------------------------------------------------
(* Claims about the invocations, under Spec.  ret holds the last           *)
(* invocation: its mode (is_train), whether the caller supplied a sink     *)
(* (given), the sink before it (before) and its outcome.                   *)

Called == ret.op = "call"
Returned == Called /\ ret.err = "none"

\* number of entries the last invocation appended under key
Appended(key) == Len(storer[key]) - Len(ret.before[key])

(* C1 as stated: with record_loss_every = k >= 1 and a sink supplied, an   *)
(* invocation that returns appends exactly one "loss" entry when it is in  *)
(* evaluation mode or is training call number 1, k + 1, 2k + 1, ..., and   *)
(* appends none otherwise.                                                 *)
C1_Cadence ==
    (Returned /\ ret.given /\ loss_f.record_loss_every >= 1) =>
        Appended("loss") =
            IF ~ret.is_train \/ (hist.train - 1) % loss_f.record_loss_every = 0
            THEN 1 ELSE 0

(* C1 for the cadences on which the code agrees with it: the same          *)
(* statement for every k >= 2.                                             *)
C1_CadenceFromTwo ==
    (Returned /\ ret.given /\ loss_f.record_loss_every >= 2) =>
        Appended("loss") =
            IF ~ret.is_train \/ (hist.train - 1) % loss_f.record_loss_every = 0
            THEN 1 ELSE 0

\* with k = 1 a training call that returns appends nothing
C1_NeverRecordsAtOne ==
    /\ Returned /\ ret.given /\ ret.is_train
    /\ loss_f.record_loss_every = 1
    /\ Appended("loss") = 0

(* C2: the step counter is 0 after construction and at every moment equals *)
(* the number of training-mode invocations made so far, those that raised  *)
(* included: a training-mode invocation adds 1, an evaluation-mode         *)
(* invocation adds nothing.                                                *)
C2_Counter ==
    /\ loss_f.n_train_steps = hist.train
    /\ hist.calls = 0 => loss_f.n_train_steps = 0
    /\ loss_f.n_train_steps <= hist.calls

C2_Witness ==
    /\ Called
    /\ ~ret.is_train
    /\ hist.calls = 3 /\ hist.train = 2
    /\ loss_f.n_train_steps = 2

AnnealStated ==
    IF ~ret.is_train \/ loss_f.steps_anneal = 0
          \/ loss_f.n_train_steps >= loss_f.steps_anneal
    THEN <<1, 1>>
    ELSE RNorm(loss_f.n_train_steps, loss_f.steps_anneal)

(* C4: an invocation of the simple loss that returns, returns              *)
(* rec + anneal * beta * kl with rec the reconstruction loss of the batch, *)
(* kl its KL total, and anneal 1 in evaluation mode and                    *)
(* linear_annealing(0, 1, step, steps_anneal) in training mode, step being *)
(* the counter after this call's increment.                                *)
C4_BetaH ==
    (Returned /\ loss_f.kind = "betaH") =>
        LET rec == ReconTable[ret.batch][loss_f.rec_dist].loss
            kl == KlTable[ret.batch].total
        IN  /\ ret.anneal_reg = AnnealStated
            /\ ret.loss =
                   NAdd(rec, NScale(RMul(AnnealStated, <<loss_f.beta, 1>>), kl))

C4_Witness ==
    /\ Returned /\ loss_f.kind = "betaH"
    /\ ret.is_train
    /\ loss_f.steps_anneal = 2 /\ loss_f.n_train_steps = 1
    /\ ret.anneal_reg = <<1, 2>>
    /\ ret.kl_loss # NZero
    /\ ret.loss = NAdd(ret.rec_loss, NScale(<<2, 1>>, ret.kl_loss))

(* C5: an invocation of the decomposed loss that returns, returns          *)
(* rec + alpha * mi + beta * tc + anneal * gamma * dwkl with               *)
(* mi = mean(log_q_zCx - log_qz), tc = mean(log_qz - log_prod_qzi) and     *)
(* dwkl = mean(log_prod_qzi - log_pz); anneal multiplies the dwkl term     *)
(* only and is 1 in evaluation mode.                                       *)
C5_Btcvae ==
    (Returned /\ loss_f.kind = "btcvae") =>
        LET rec == ReconTable[ret.batch][loss_f.rec_dist].loss
            q == DecompTable[ret.batch][loss_f.n_data][loss_f.is_mss]
            mi == NMean(VSub(q.log_q_zCx, q.log_qz))
            tc == NMean(VSub(q.log_qz, q.log_prod_qzi))
            dwkl == NMean(VSub(q.log_prod_qzi, q.log_pz))
        IN  /\ ret.anneal_reg = AnnealStated
            /\ ~ret.is_train => ret.anneal_reg = <<1, 1>>
            /\ ret.loss =
                   NAdd(NAdd(NAdd(rec, NScale(<<loss_f.alpha, 1>>, mi)),
                             NScale(<<loss_f.beta, 1>>, tc)),
                        NScale(RMul(AnnealStated, <<loss_f.gamma, 1>>), dwkl))

C5_Witness ==
    /\ Returned /\ loss_f.kind = "btcvae"
    /\ BatchesExact
    /\ ret.is_train
    /\ ret.anneal_reg = <<1, 2>>
    /\ loss_f.alpha = 2 /\ loss_f.beta = 3 /\ loss_f.gamma = 5
    /\ ret.mi_loss # NZero /\ ret.tc_loss # NZero /\ ret.dw_kl_loss # NZero
    /\ ret.loss # NAdd(ret.rec_loss,
                       NScale(<<1, 2>>,
                              NAdd(NScale(<<2, 1>>, ret.mi_loss),
                                   NAdd(NScale(<<3, 1>>, ret.tc_loss),
                                        NScale(<<5, 1>>, ret.dw_kl_loss)))))

(* C9: an invocation of a loss whose rec_dist is none of bernoulli,        *)
(* gaussian and laplace never returns a loss and records nothing; the      *)
(* error is ValueError whenever the invocation gets as far as the          *)
(* reconstruction loss (the modulo of _pre_call is defined and the         *)
(* decomposed loss was given its latent sample).  For the three recognized *)
(* names no invocation raises ValueError.                                  *)
C9_UnknownDistribution ==
    Called =>
        /\ loss_f.rec_dist \notin RECON_DIST =>
               /\ ret.err # "none"
               /\ storer = ret.before
               /\ (/\ ~(ret.is_train /\ loss_f.record_loss_every = 0)
                   /\ ret.has_sample) => ret.err = "ValueError"
        /\ loss_f.rec_dist \in RECON_DIST => ret.err # "ValueError"

C9_Witness ==
    /\ Called
    /\ loss_f.rec_dist = "poisson"
    /\ ret.given /\ ~ret.is_train
    /\ ret.err = "ValueError"
    /\ storer = ret.before

(* C11: an invocation of the decomposed loss without latent_sample, in     *)
(* training or in evaluation mode, raises (AttributeError on               *)
(* latent_sample.shape, unless _pre_call raised before it), returns no     *)
(* loss and leaves the sink as it was.                                     *)
C11_NoLatentSample ==
    (Called /\ loss_f.kind = "btcvae" /\ ~ret.has_sample) =>
        /\ ret.err # "none"
        /\ ret.err \in {"AttributeError", "ZeroDivisionError"}
        /\ ret.err = "ZeroDivisionError" =>
               (ret.is_train /\ loss_f.record_loss_every = 0)
        /\ storer = ret.before

C11_Witness ==
    /\ Called /\ loss_f.kind = "btcvae"
    /\ ~ret.has_sample /\ ret.given /\ ~ret.is_train
    /\ loss_f.rec_dist = "bernoulli"
    /\ ret.err = "AttributeError"
    /\ Len(ret.before["loss"]) = 1
    /\ storer = ret.before

(* C18: on a fresh loss with steps_anneal = H > 0 the weight used by the   *)
(* n-th training call is below 1 for n < H and is 1 for n >= H, and is     *)
(* never smaller than the weight used by the training call before it; an   *)
(* evaluation call uses weight 1.                                          *)
C18_Ramp ==
    /\ [](Returned =>
            /\ (ret.is_train /\ loss_f.steps_anneal > 0 /\ hist.train < loss_f.steps_anneal)
                   => RLt(ret.anneal_reg, <<1, 1>>)
            /\ (ret.is_train /\ loss_f.steps_anneal > 0 /\ hist.train >= loss_f.steps_anneal)
                   => ret.anneal_reg = <<1, 1>>
            /\ ~ret.is_train => ret.anneal_reg = <<1, 1>>)
    /\ [][(ret'.op = "call" /\ ret'.err = "none" /\ ret'.is_train
             /\ loss_f.steps_anneal > 0)
            => RLe(hist.weight, ret'.anneal_reg)]_vars

C18_Witness ==
    /\ Returned /\ ret.is_train
    /\ loss_f.steps_anneal = 3
    /\ hist.train = 2 /\ hist.calls = 3
    /\ hist.weight = <<2, 3>>
    /\ ret.anneal_reg = <<2, 3>>

C18_WitnessHeld ==
    /\ Returned /\ ret.is_train
    /\ loss_f.steps_anneal = 3
    /\ hist.train = 4
    /\ ret.anneal_reg = <<1, 1>>

\* s is an initial segment of t
IsPrefix(s, t) == Len(s) <= Len(t) /\ SubSeq(t, 1, Len(s)) = s

(* C19: an invocation made with no sink, and a training invocation that is *)
(* not a recording one, leave every sequence of the sink as it was; any    *)
(* invocation leaves the entries already in the sink in place and only     *)
(* appends after them.                                                     *)
C19_AppendOnly ==
    Called =>
        /\ ~ret.given => storer = ret.before
        /\ (ret.is_train /\ ~ret.passed) => storer = ret.before
        /\ \A key \in StorerKeys : IsPrefix(ret.before[key], storer[key])

C19_Witness ==
    /\ Returned /\ ret.given /\ ret.passed
    /\ Len(ret.before["loss"]) = 1
    /\ storer["loss"] = Append(ret.before["loss"], ret.loss)
    /\ ret.before["loss"][1] # ret.loss

C19_WitnessSilent ==
    /\ Returned /\ ret.given /\ ret.is_train /\ ~ret.passed
    /\ storer = ret.before
    /\ Len(storer["loss"]) = 2

\* the keys a recording invocation of a loss of this kind appends to when
\* the latent dimension is D
RecordedKeys(kind, D) ==
    {"recon_loss", "kl_loss", "loss"}
        \cup {KlKey(i) : i \in 0 .. D - 1}
        \cup (IF kind = "btcvae" THEN {"mi_loss", "tc_loss", "dw_kl_loss"} ELSE {})

(* C20: a recording invocation that returns, on a batch of latent          *)
(* dimension D, appends exactly one value under recon_loss, kl_loss,       *)
(* kl_loss_0 .. kl_loss_{D-1} and loss (and under mi_loss, tc_loss and     *)
(* dw_kl_loss for the decomposed loss) and nothing under any other key;    *)
(* while all recording invocations had the same D, each of these           *)
(* sequences is as long as the number of recording invocations so far and  *)
(* every other one is empty.                                               *)
C20_RecordedKeys ==
    /\ (Returned /\ ret.passed) =>
           \A key \in StorerKeys :
               Appended(key) =
                   IF key \in RecordedKeys(loss_f.kind, Len(BatchData[ret.batch].mean[1]))
                   THEN 1 ELSE 0
    /\ \A D \in hist.dims :
           hist.dims = {D} =>
               \A key \in StorerKeys :
                   Len(storer[key]) =
                       IF key \in RecordedKeys(loss_f.kind, D) THEN hist.recorded ELSE 0

C20_Witness ==
    /\ Returned /\ ret.passed
    /\ loss_f.kind = "btcvae"
    /\ hist.dims = {2} /\ hist.recorded = 2 /\ hist.calls = 3
    /\ \A key \in RecordedKeys("btcvae", 2) : Len(storer[key]) = 2
    /\ Appended("kl_loss_1") = 1 /\ Appended("dw_kl_loss") = 1

C20_WitnessSimple ==
    /\ Returned /\ ret.passed
    /\ loss_f.kind = "betaH"
    /\ hist.dims = {1} /\ hist.recorded = 2
    /\ Len(storer["kl_loss_0"]) = 2 /\ Len(storer["kl_loss_1"]) = 0
    /\ Len(storer["mi_loss"]) = 0

\* the loss object the last invocation was made on, with cadence k
ObjectBefore(k) ==
    [loss_f EXCEPT !.n_train_steps = @ - (IF ret.is_train THEN 1 ELSE 0),
                   !.record_loss_every = k]

\* the last invocation made again on the same inputs, in the same mode, at
\* the same step counter, on an object of cadence k with storer argument st
Again(k, st) ==
    IF loss_f.kind = "betaH"
    THEN BetaHLoss_call(ObjectBefore(k), ret.batch, ret.is_train, st)
    ELSE BtcvaeLoss_call(ObjectBefore(k), ret.batch, ret.is_train, st, ret.has_sample)

\* the twins of the last invocation: with no sink, with a sink under
\* cadence 1 (no training call records) and with a sink under cadence 2
\* (the odd training calls record)
Twins ==
    {Again(loss_f.record_loss_every, NoneStorer),
     Again(1, SomeStorer(ret.before)),
     Again(2, SomeStorer(ret.before))}

(* C21: the value an invocation returns is the value the same invocation   *)
(* returns (same batch, mode, hyperparameters and step counter) with no    *)
(* sink, with a sink on a non-recording call and with a sink on a          *)
(* recording call.                                                         *)
C21_RecordingIsSilent ==
    Returned => \A twin \in Twins : twin.err = "none" /\ twin.loss = ret.loss

\* a recording invocation of the decomposed loss whose twin under cadence 1
\* does not record
C21_Witness ==
    /\ Returned /\ ret.passed /\ ret.is_train
    /\ loss_f.kind = "btcvae"
    /\ loss_f.record_loss_every = 2 /\ loss_f.n_train_steps = 3
    /\ Appended("kl_loss") = 1
    /\ ~Again(1, SomeStorer(ret.before)).passed
    /\ Again(1, SomeStorer(ret.before)).loss = ret.loss
    /\ KlTable[ret.batch].total # NZero

\* the attributes of a loss object other than its step counter
Hyperparameters == (DOMAIN loss_f) \ {"n_train_steps"}

(* C22: an invocation, returning or failing, in training or evaluation     *)
(* mode, leaves every attribute of the loss object other than              *)
(* n_train_steps as it was, so that they keep the values given at          *)
(* construction.                                                           *)
C22_Hyperparameters ==
    /\ [][/\ DOMAIN loss_f' = DOMAIN loss_f
          /\ \A f \in Hyperparameters : loss_f'[f] = loss_f[f]]_vars
    /\ []([loss_f EXCEPT !.n_train_steps = 0] \in BetaHObjects \cup BtcvaeObjects)

\* two failing training calls on a decomposed loss of unknown distribution
C22_Witness ==
    /\ Called /\ ret.err = "ValueError" /\ ret.is_train
    /\ hist.calls = 2
    /\ loss_f = [BtcvaeLoss_init(4, 2, 3, 5, TRUE, 2, "poisson", 1)
                    EXCEPT !.n_train_steps = 2]

\* the last invocation was a training one that failed in the computation
FailedInTraining ==
    Called /\ ret.is_train /\ ret.err \in {"ValueError", "AttributeError"}

(* C24: a training invocation that fails on an unknown rec_dist or on a    *)
(* missing latent_sample appends nothing to the sink and has advanced the  *)
(* step counter: the counter is the number of training invocations made,   *)
(* failed ones included, and a later training invocation that returns      *)
(* takes its annealing weight and its recording decision from that number. *)
C24_FailedCallsCount ==
    /\ loss_f.n_train_steps = hist.train
    /\ FailedInTraining => storer = ret.before
    /\ (Returned /\ ret.is_train) =>
           /\ ret.anneal_reg =
                  (IF loss_f.steps_anneal = 0 \/ hist.train >= loss_f.steps_anneal
                   THEN <<1, 1>> ELSE RNorm(hist.train, loss_f.steps_anneal))
           /\ ret.given =>
                  (ret.passed <=> PyMod(hist.train, loss_f.record_loss_every) = 1)

\* a training call that returns after one that failed: it is step 2
C24_Witness ==
    /\ Returned /\ ret.is_train /\ ret.given
    /\ loss_f.kind = "btcvae"
    /\ hist.failed = 1 /\ hist.train = 2 /\ hist.calls = 2
    /\ loss_f.steps_anneal = 3 /\ loss_f.record_loss_every = 2
    /\ ret.anneal_reg = <<2, 3>>
    /\ ~ret.passed
    /\ storer = EmptyLog

\* the failing call itself
C24_WitnessFailing ==
    /\ FailedInTraining /\ ret.err = "AttributeError" /\ ret.given
    /\ hist.train = 3 /\ loss_f.n_train_steps = 3
    /\ loss_f.record_loss_every = 2
    /\ storer = ret.before /\ Len(storer["loss"]) = 1

\* the loss object after m training calls and no evaluation call
TrainedOnly(m) ==
    LET acc[i \in 0 .. m] ==
            IF i = 0 THEN [loss_f EXCEPT !.n_train_steps = 0]
            ELSE [acc[i - 1] EXCEPT
                     !.n_train_steps = pre_call(acc[i - 1], TRUE, NoneStorer).n_train_steps]
    IN  acc[m]

\* _pre_call of the n-th training call of a loss that was never evaluated
UninterleavedPreCall == pre_call(TrainedOnly(hist.train - 1), TRUE, SomeStorer(EmptyLog))

(* C25: whatever evaluation calls were made in between, the n-th training  *)
(* call records, and is annealed, as the n-th training call of the same    *)
(* loss made with no evaluation call at all.                               *)
C25_EvalDoesNotShift ==
    (Returned /\ ret.is_train) =>
        /\ UninterleavedPreCall.n_train_steps = loss_f.n_train_steps
        /\ ret.anneal_reg =
               AnnealReg(UninterleavedPreCall.n_train_steps, loss_f.steps_anneal, TRUE)
        /\ ret.given => (ret.passed <=> UninterleavedPreCall.storer.some)

\* the second training call, made after two evaluation calls
C25_Witness ==
    /\ Returned /\ ret.is_train /\ ret.given
    /\ hist.calls = 4 /\ hist.train = 2
    /\ loss_f.steps_anneal = 3 /\ loss_f.record_loss_every = 3
    /\ ret.anneal_reg = <<2, 3>>
    /\ ~ret.passed
    /\ Len(storer["loss"]) = 2

\* the last invocation had what the computation needs: a known distribution
\* and a latent sample
Computable == loss_f.rec_dist \in RECON_DIST /\ ret.has_sample

(* C26: with record_loss_every = 0 every training invocation fails with a  *)
(* ZeroDivisionError, the step counter advanced and the sink untouched,    *)
(* while an evaluation invocation returns and records when handed a sink;  *)
(* with a negative record_loss_every a training invocation returns and     *)
(* never records.                                                          *)
C26_DegenerateCadence ==
    Called =>
        /\ (loss_f.record_loss_every = 0 /\ ret.is_train) =>
               /\ ret.err = "ZeroDivisionError"
               /\ ~ret.passed
               /\ storer = ret.before
               /\ loss_f.n_train_steps = hist.train /\ hist.failed = hist.train
        /\ (loss_f.record_loss_every = 0 /\ ~ret.is_train /\ Computable) =>
               /\ ret.err = "none"
               /\ ret.given => (ret.passed /\ Appended("loss") = 1)
        /\ (loss_f.record_loss_every < 0 /\ ret.is_train /\ Computable) =>
               /\ ret.err = "none"
               /\ ~ret.passed
               /\ storer = ret.before

\* an evaluation call that records after two training calls that failed
C26_Witness ==
    /\ Returned /\ ~ret.is_train /\ ret.given
    /\ loss_f.record_loss_every = 0
    /\ hist.failed = 2 /\ loss_f.n_train_steps = 2
    /\ ret.passed /\ Appended("loss") = 1

C26_WitnessFailing ==
    /\ Called /\ ret.is_train /\ ret.given
    /\ loss_f.record_loss_every = 0
    /\ ret.err = "ZeroDivisionError"
    /\ loss_f.n_train_steps = 2
    /\ Len(storer["loss"]) = 1

C26_WitnessNegative ==
    /\ Returned /\ ret.is_train /\ ret.given
    /\ loss_f.record_loss_every = -2
    /\ hist.train = 3 /\ hist.calls = 3
    /\ storer = EmptyLog

-----------------------------------------------------------------------------
(* Specification SpecDecomp: one invocation of a decomposed loss built     *)
(* with the constructor's defaults on a batch drawn from a family:         *)
(* batches of identical samples of every size and latent dimension, and    *)
(* the two batches above.  Only inputs on which the arithmetic of this     *)
(* model is exact are drawn, and batches no larger than the dataset.       *)

\* largest batch of the family (the smallest is 2: with minibatch stratified
\* sampling the weights divide by batch_size - 1)
MaxDecompBatch == 4

\* B identical samples: latent sample x, mean mu and variance v in each of
\* D dimensions, one pixel reconstructed as 1/2
ConstBatch(B, D, x, mu, v) ==
    [data |-> [i \in 1 .. B |-> <<Half>>],
     recon_data |-> [i \in 1 .. B |-> <<Half>>],
     mean |-> [i \in 1 .. B |-> [d \in 1 .. D |-> R(mu)]],
     logvar |-> [i \in 1 .. B |-> [d \in 1 .. D |-> NLn(R(v))]],
     latent_sample |-> [i \in 1 .. B |-> [d \in 1 .. D |-> R(x)]]]

DecompBatches ==
    {ConstBatch(B, D, x, mu, v) :
        B \in 2 .. MaxDecompBatch, D \in 1 .. MaxLatentDim,
        x \in {0, 1}, mu \in {0, 1}, v \in {1, 4}}
        \cup {Batch1, Batch2}

DecompNData == {2, 4, 100}

DecompObjects ==
    {BtcvaeLoss_init(nd, DefaultAlpha, DefaultBetaTC, DefaultGamma, mss,
                     DefaultRecordLossEvery, DefaultRecDist, DefaultStepsAnneal) :
        nd \in DecompNData, mss \in BOOLEAN}

InitDecomp ==
    /\ loss_f \in DecompObjects
    /\ args \in {[op |-> "btcvae", batch |-> bt] : bt \in DecompBatches}
    /\ Len(args.batch.latent_sample) <= loss_f.n_data
    /\ DecompExact(args.batch.latent_sample, args.batch.mean, args.batch.logvar,
                   loss_f.n_data, loss_f.is_mss)
    /\ storer = EmptyLog
    /\ ret = NoRet
    /\ hist = NoHist
    /\ files = {}

\* BtcvaeLoss.__call__ on the batch of args, with a sink
DecompCall ==
    /\ args.op = "btcvae"
    /\ ret.op = "none"
    /\ \E is_train \in BOOLEAN :
          \E q \in {get_log_pz_qz_prodzi_qzCx(args.batch.latent_sample, args.batch.mean,
                                              args.batch.logvar, loss_f.n_data,
                                              loss_f.is_mss)} :
             \E out \in {BtcvaeLoss_body(loss_f, is_train, SomeStorer(storer), TRUE,
                                         pre_call(loss_f, is_train, SomeStorer(storer)),
                                         ReconLoss(args.batch.data, args.batch.recon_data,
                                                   loss_f.rec_dist),
                                         KlNormal(args.batch.mean, args.batch.logvar),
                                         KlTerms(q))} :
                /\ loss_f' = [loss_f EXCEPT !.n_train_steps = out.n_train_steps]
                /\ storer' = IF out.storer.some THEN out.storer.log ELSE storer
                /\ ret' = [op |-> "btcvae", err |-> out.err, is_train |-> is_train,
                           loss |-> out.loss, rec_loss |-> out.rec_loss,
                           mi_loss |-> out.mi_loss, tc_loss |-> out.tc_loss,
                           dw_kl_loss |-> out.dw_kl_loss, q |-> q]
                /\ hist' = [hist EXCEPT !.calls = @ + 1,
                                        !.train = @ + (IF is_train THEN 1 ELSE 0)]
                /\ UNCHANGED <<args, files>>

NextDecomp == DecompCall

SpecDecomp == InitDecomp /\ [][NextDecomp]_vars

DecompReturned == ret.op = "btcvae" /\ ret.err = "none"

(* C12: for every output of the decomposition, with is_mss true and false, *)
(* mi + tc + dwkl = mean(log_q_zCx) - mean(log_pz).                        *)
C12_Telescopes ==
    DecompReturned =>
        NAdd(NAdd(ret.mi_loss, ret.tc_loss), ret.dw_kl_loss)
            = NSub(NMean(ret.q.log_q_zCx), NMean(ret.q.log_pz))

C12_Witness ==
    /\ DecompReturned
    /\ args.batch = Batch1
    /\ loss_f.is_mss /\ loss_f.n_data = 4
    /\ ret.mi_loss # NZero /\ ret.tc_loss # NZero /\ ret.dw_kl_loss # NZero
    /\ ret.q.log_qz # ret.q.log_prod_qzi

\* the scenario of C13
C13_Scenario ==
    /\ DecompReturned
    /\ args.batch = ConstBatch(4, 2, 0, 0, 1)
    /\ loss_f.n_data = 100 /\ ~loss_f.is_mss

(* C13 as stated: with batch size 4, latent dimension 2, latent_sample,    *)
(* mean and logvar all zeros, n_data = 100 and is_mss false, log_q_zCx,    *)
(* log_pz, log_qz and log_prod_qzi are equal, mi = tc = dwkl = 0 and the   *)
(* loss is the reconstruction loss.                                        *)
C13_AllEqual ==
    C13_Scenario =>
        /\ ret.q.log_q_zCx = ret.q.log_pz
        /\ ret.q.log_qz = ret.q.log_pz
        /\ ret.q.log_prod_qzi = ret.q.log_pz
        /\ ret.mi_loss = NZero /\ ret.tc_loss = NZero /\ ret.dw_kl_loss = NZero
        /\ ret.loss = ret.rec_loss

\* what the code returns in the scenario: log_qz = log_pz + ln 4 and
\* log_prod_qzi = log_pz + 2 ln 4, so mi = tc = -ln 4, dwkl = 2 ln 4 and,
\* with alpha = 1, beta = 6, gamma = 1, loss = rec - 5 ln 4
C13_Observed ==
    /\ C13_Scenario
    /\ ret.q.log_q_zCx = ret.q.log_pz
    /\ \A i \in 1 .. 4 :
          /\ ret.q.log_qz[i] = NAdd(ret.q.log_pz[i], NLn(R(4)))
          /\ ret.q.log_prod_qzi[i] = NAdd(ret.q.log_pz[i], NScale(R(2), NLn(R(4))))
    /\ ret.mi_loss = NNeg(NLn(R(4)))
    /\ ret.tc_loss = NNeg(NLn(R(4)))
    /\ ret.dw_kl_loss = NScale(R(2), NLn(R(4)))
    /\ ret.loss = NSub(ret.rec_loss, NScale(R(5), NLn(R(4))))

\* the decomposed losses the last invocation can be compared with: n_data
\* and is_mss for which the batch fits and the arithmetic is exact
DecompTwins ==
    {p \in DecompNData \X BOOLEAN :
        /\ p # <<loss_f.n_data, loss_f.is_mss>>
        /\ Len(args.batch.latent_sample) <= p[1]
        /\ DecompExact(args.batch.latent_sample, args.batch.mean, args.batch.logvar,
                       p[1], p[2])}

\* the decomposition of the batch of the last invocation under p
TwinDecomp(p) ==
    get_log_pz_qz_prodzi_qzCx(args.batch.latent_sample, args.batch.mean,
                              args.batch.logvar, p[1], p[2])

\* the outcome of the last invocation made on the loss that differs in
\* n_data and is_mss only, at the same step counter
TwinCall(p, q) ==
    LET obj == [loss_f EXCEPT !.n_data = p[1], !.is_mss = p[2],
                              !.n_train_steps = @ - (IF ret.is_train THEN 1 ELSE 0)]
    IN  BtcvaeLoss_body(obj, ret.is_train, NoneStorer, TRUE,
                        pre_call(obj, ret.is_train, NoneStorer),
                        ReconLoss(args.batch.data, args.batch.recon_data, obj.rec_dist),
                        KlNormal(args.batch.mean, args.batch.logvar),
                        KlTerms(q))

-----------------------------------------------------------------------------
(* Specification SpecKl: _kl_normal_loss on a latent distribution of every *)
(* batch size and latent dimension, with and without a sink.               *)

\* largest batch size
MaxBatch == 2

\* the mean of each sample (the same in every dimension) and the variance
\* of each dimension (the same for every sample)
KlMeans == UNION {[1 .. B -> {0, 1}] : B \in 1 .. MaxBatch}
KlVariances == UNION {[1 .. D -> {1, 4}] : D \in 1 .. MaxLatentDim}

KlArgs ==
    {[op |-> "kl_normal_loss",
      mean |-> [i \in DOMAIN mu |-> [d \in DOMAIN v |-> R(mu[i])]],
      logvar |-> [i \in DOMAIN mu |-> [d \in DOMAIN v |-> NLn(R(v[d]))]],
      given |-> g] : mu \in KlMeans, v \in KlVariances, g \in BOOLEAN}

InitKl ==
    /\ args \in KlArgs
    /\ loss_f = NoLoss
    /\ storer = EmptyLog
    /\ ret = NoRet
    /\ hist = NoHist
    /\ files = {}

KlCall ==
    /\ args.op = "kl_normal_loss"
    /\ ret.op = "none"
    /\ \E out \in {kl_normal_loss(KlNormal(args.mean, args.logvar),
                                  IF args.given THEN SomeStorer(storer)
                                  ELSE NoneStorer)} :
          /\ ret' = [op |-> "kl_normal_loss", err |-> "none", total |-> out.total]
          /\ storer' = IF out.storer.some THEN out.storer.log ELSE storer
    /\ UNCHANGED <<args, loss_f, hist, files>>

NextKl == KlCall

SpecKl == InitKl /\ [][NextKl]_vars

\* mean and logvar are all zeros
KlAllZero ==
    \A i \in DOMAIN args.mean : \A d \in DOMAIN args.mean[i] :
        args.mean[i][d] = <<0, 1>> /\ args.logvar[i][d] = NZero

(* C14: with mean and logvar all zeros, for every batch size and latent    *)
(* dimension, _kl_normal_loss returns 0, and with a sink the total and     *)
(* every per-dimension value it records are 0.                             *)
C14_KlZero ==
    (ret.op = "kl_normal_loss" /\ KlAllZero) =>
        /\ ret.total = NZero
        /\ args.given =>
               /\ storer["kl_loss"] = <<NZero>>
               /\ \A d \in DOMAIN args.mean[1] : storer[KlKey(d - 1)] = <<NZero>>

C14_Witness ==
    /\ ret.op = "kl_normal_loss" /\ KlAllZero
    /\ Len(args.mean) = 2 /\ Len(args.mean[1]) = 2
    /\ args.given
    /\ ret.total = NZero
    /\ storer["kl_loss_1"] = <<NZero>>

-----------------------------------------------------------------------------
(* Specification SpecRecon: _reconstruction_loss on a valid pair of        *)
(* batches (values in [0, 1]) of every batch size and number of pixels per *)
(* image, under every distribution name, with and without a sink.          *)

\* largest number of elements (channels x height x width) of an image
MaxPixels == 2

\* the values of a pixel
PixelValues == {R(0), Half, R(1)}

\* per image, the value of its pixels in data and in recon_data
ReconImages == UNION {[1 .. B -> PixelValues \X PixelValues] : B \in 1 .. MaxBatch}

ReconArgs ==
    {[op |-> "reconstruction_loss",
      data |-> [i \in DOMAIN im |-> [p \in 1 .. P |-> im[i][1]]],
      recon_data |-> [i \in DOMAIN im |-> [p \in 1 .. P |-> im[i][2]]],
      distribution |-> dist,
      given |-> g] :
        im \in ReconImages, P \in 1 .. MaxPixels, dist \in RecDistNames, g \in BOOLEAN}

InitRecon ==
    /\ args \in ReconArgs
    /\ loss_f = NoLoss
    /\ storer = EmptyLog
    /\ ret = NoRet
    /\ hist = NoHist
    /\ files = {}

ReconCall ==
    /\ args.op = "reconstruction_loss"
    /\ ret.op = "none"
    /\ \E out \in {reconstruction_loss(
                       ReconLoss(args.data, args.recon_data, args.distribution),
                       IF args.given THEN SomeStorer(storer) ELSE NoneStorer)} :
          /\ ret' = [op |-> "reconstruction_loss", err |-> out.err, loss |-> out.loss]
          /\ storer' = IF out.storer.some THEN out.storer.log ELSE storer
    /\ UNCHANGED <<args, loss_f, hist, files>>

NextRecon == ReconCall

SpecRecon == InitRecon /\ [][NextRecon]_vars

ReconReturned == ret.op = "reconstruction_loss" /\ ret.err = "none"

\* a number whose coefficients are all >= 0 is >= 0 (1, ln 2, ln 3, ln 5 and
\* ln pi are positive)
NNonNeg(x) == \A b \in Basis : x[b][1] >= 0

(* C15: on valid batches the reconstruction loss under bernoulli, gaussian *)
(* and laplace is returned and is non-negative.                            *)
C15_NonNegative ==
    (ret.op = "reconstruction_loss" /\ args.distribution \in RECON_DIST) =>
        /\ ret.err = "none"
        /\ NNonNeg(ret.loss)

C15_Witness ==
    /\ ReconReturned
    /\ args.distribution = "laplace"
    /\ Len(args.data) = 2
    /\ args.data[1][1] = R(1) /\ args.recon_data[1][1] = R(0)
    /\ args.data[2][1] = R(0) /\ args.recon_data[2][1] = Half
    /\ ret.loss # NZero /\ NNonNeg(ret.loss)

\* data and recon_data are 1/2 everywhere
ReconAllHalf ==
    \A i \in DOMAIN args.data : \A p \in DOMAIN args.data[i] :
        args.data[i][p] = Half /\ args.recon_data[i][p] = Half

\* the sum of the squared differences over all elements
SquaredError ==
    LET d == Flatten(args.data)
        r == Flatten(args.recon_data)
    IN  RSum([k \in 1 .. Len(d) |-> RMul(RSub(r[k], d[k]), RSub(r[k], d[k]))])

(* C16: the reconstruction loss is the sum over all elements divided by    *)
(* the batch size only: under bernoulli with data and reconstruction 1/2   *)
(* everywhere it is (number of elements of an image) * (-ln 1/2) for every *)
(* batch size, and under gaussian it is 255 * (sum of squared             *)
(* differences) / batch size.                                              *)
C16_PerImage ==
    ReconReturned =>
        /\ (args.distribution = "bernoulli" /\ ReconAllHalf) =>
               ret.loss = NScale(R(Len(args.data[1])), NNeg(NLn(Half)))
        /\ args.distribution = "gaussian" =>
               ret.loss = NRat(RDiv(RMul(R(255), SquaredError), R(Len(args.data))))

C16_Witness ==
    /\ ReconReturned
    /\ args.distribution = "bernoulli" /\ ReconAllHalf
    /\ Len(args.data) = 2 /\ Len(args.data[1]) = 2
    /\ args.given
    /\ ret.loss = NScale(R(2), NLn(R(2)))
    /\ storer["recon_loss"] = <<ret.loss>>

\* the sum of the absolute differences over all elements
AbsoluteError ==
    LET d == Flatten(args.data)
        r == Flatten(args.recon_data)
    IN  RSum([k \in 1 .. Len(d) |->
                 IF RLe(d[k], r[k]) THEN RSub(r[k], d[k]) ELSE RSub(d[k], r[k])])

(* C23: under laplace the reconstruction loss is 3 * (sum of the absolute  *)
(* differences) / batch size, the masking of an exact zero leaving every   *)
(* non-zero value as it is, and it is 0 when the summed error is 0.        *)
C23_Laplace ==
    (ret.op = "reconstruction_loss" /\ args.distribution = "laplace") =>
        /\ ret.err = "none"
        /\ ret.loss = NRat(RDiv(RMul(R(3), AbsoluteError), R(Len(args.data))))
        /\ AbsoluteError = R(0) => ret.loss = NZero

C23_Witness ==
    /\ ReconReturned /\ args.distribution = "laplace"
    /\ Len(args.data) = 2 /\ Len(args.data[1]) = 2
    /\ AbsoluteError = R(1)
    /\ ret.loss = NRat(<<3, 2>>)

C23_WitnessZero ==
    /\ ReconReturned /\ args.distribution = "laplace"
    /\ AbsoluteError = R(0)
    /\ ret.loss = NZero

-----------------------------------------------------------------------------
(* Specification SpecDefault: the losses constructed with their default    *)
(* arguments, invoked often enough for the default cadence of 50 to show.  *)

\* largest number of training invocations
MaxDefaultSteps == 101

\* largest number of evaluation invocations
MaxDefaultEvals == 1

\* BetaHLoss()
BetaHLoss_default ==
    BetaHLoss_init(DefaultBetaH, DefaultRecordLossEvery, DefaultRecDist,
                   DefaultStepsAnneal)

\* BtcvaeLoss(n_data)
BtcvaeLoss_default(n_data) ==
    BtcvaeLoss_init(n_data, DefaultAlpha, DefaultBetaTC, DefaultGamma, TRUE,
                    DefaultRecordLossEvery, DefaultRecDist, DefaultStepsAnneal)

InitDefault ==
    /\ args = NoArgs
    /\ loss_f \in {BetaHLoss_default} \cup {BtcvaeLoss_default(nd) : nd \in NDataSet}
    /\ storer = EmptyLog
    /\ ret = NoRet
    /\ hist = NoHist
    /\ files = {}

\* the modes the bounds still allow
DefaultModes ==
    {m \in BOOLEAN : IF m THEN hist.train < MaxDefaultSteps
                     ELSE hist.calls - hist.train < MaxDefaultEvals}

BetaHDefaultCall ==
    /\ loss_f.kind = "betaH"
    /\ \E is_train \in DefaultModes, given \in BOOLEAN :
          \E out \in {BetaHLoss_call(loss_f, 1, is_train,
                                     IF given THEN SomeStorer(storer) ELSE NoneStorer)} :
             Invoked(out, 1, is_train, given, TRUE)

BtcvaeDefaultCall ==
    /\ loss_f.kind = "btcvae"
    /\ \E is_train \in DefaultModes, given \in BOOLEAN :
          \E out \in {BtcvaeLoss_call(loss_f, 1, is_train,
                                      IF given THEN SomeStorer(storer) ELSE NoneStorer,
                                      TRUE)} :
             Invoked(out, 1, is_train, given, TRUE)

NextDefault == BetaHDefaultCall \/ BtcvaeDefaultCall

SpecDefault == InitDefault /\ [][NextDefault]_vars

(* C17: BetaHLoss() has beta 4, record_loss_every 50, rec_dist "bernoulli" *)
(* and steps_anneal 0; BtcvaeLoss(n_data) has alpha 1, beta 6, gamma 1,    *)
(* is_mss True and the same base fields; every invocation of either        *)
(* returns with annealing weight 1, and a training invocation handed a     *)
(* sink records exactly when it is training call 1, 51, 101, ...           *)
C17_Defaults ==
    /\ loss_f.record_loss_every = 50
    /\ loss_f.rec_dist = "bernoulli"
    /\ loss_f.steps_anneal = 0
    /\ loss_f.kind = "betaH" => loss_f.beta = 4
    /\ loss_f.kind = "btcvae" =>
           /\ loss_f.alpha = 1 /\ loss_f.beta = 6 /\ loss_f.gamma = 1
           /\ loss_f.is_mss = TRUE
    /\ Called =>
           /\ ret.err = "none"
           /\ ret.anneal_reg = <<1, 1>>
           /\ (ret.is_train /\ ret.given) =>
                  /\ Appended("loss") = (IF (hist.train - 1) % 50 = 0 THEN 1 ELSE 0)
                  /\ ret.passed <=> hist.train \in {1, 51, 101, 151}

C17_Witness ==
    /\ Returned /\ ret.is_train /\ ret.given
    /\ hist.train = 51
    /\ loss_f.kind = "btcvae"
    /\ ret.passed /\ Appended("loss") = 1
    /\ ret.anneal_reg = <<1, 1>>

C17_WitnessSilent ==
    /\ Returned /\ ret.is_train /\ ret.given
    /\ hist.train = 50
    /\ ~ret.passed /\ Appended("loss") = 0

-----------------------------------------------------------------------------
(* Specification SpecExperiment: the experiment drivers of                 *)
(* src/experiments/mnist.py and src/experiments/ecg5000.py, as far as they *)
(* decide what is trained, loaded, computed, written and plotted.  args    *)
(* holds the arguments of the run and the saving directory it started      *)
(* with, files the saving directory, loss_f the list loss_list of          *)
(* disvae_feature_importance, ret the position and local variables of the  *)
(* run, hist what the run did so far.                                      *)

\* largest n_runs
MaxRuns == 1

\* largest number of training batches of one fit
MaxFitSteps == 2

\* beta_list of a run of disvae_feature_importance
BetaList == <<1, 5>>

\* the pretext tasks and the classifier of one run of pretext_task_sensitivity
PretextTasks == <<"Identity", "RandomNoise", "Mask", "Classifier">>

\* experiments whose load_metrics is first and-ed with the existence of metrics.csv
CoercedExperiments ==
    {"mnist.consistency_feature_importance", "ecg5000.consistency_feature_importance"}

\* experiments that test 'load_metrics is not True' as given
UncoercedExperiments ==
    {"mnist.consistency_examples", "ecg5000.consistency_example_importance"}

ConsistencyExperiments == CoercedExperiments \cup UncoercedExperiments

Experiments ==
    ConsistencyExperiments
        \cup {"mnist.pretext_task_sensitivity", "mnist.disvae_feature_importance"}

MetricsCsv == <<"metrics.csv", 0>>

\* the checkpoint <name>.pt of the i-th model of the run
Checkpoint(i) == <<"pt", i>>

\* the models of a run in the order the driver works on them: name is what
\* tells their checkpoints apart, loss the index in loss_list (0: none)
Models(op, n_runs) ==
    IF op \in ConsistencyExperiments
    THEN << [name |-> <<"autoencoder">>, loss |-> 0, beta |-> 0] >>
    ELSE IF op = "mnist.pretext_task_sensitivity"
    THEN [i \in 1 .. n_runs * Len(PretextTasks) |->
             [name |-> <<PretextTasks[((i - 1) % Len(PretextTasks)) + 1],
                         (i - 1) \div Len(PretextTasks)>>,
              loss |-> 0, beta |-> 0]]
    ELSE \* itertools.product(beta_list, loss_list, range(1, n_runs + 1))
         [i \in 1 .. Len(BetaList) * 2 * n_runs |->
             [name |-> <<(((i - 1) \div n_runs) % 2) + 1,
                         BetaList[((i - 1) \div (2 * n_runs)) + 1],
                         ((i - 1) % n_runs) + 1>>,
              loss |-> (((i - 1) \div n_runs) % 2) + 1,
              beta |-> BetaList[((i - 1) \div (2 * n_runs)) + 1]]]

\* the saving directories a run can start with: metrics.csv or not, and the
\* checkpoints an earlier run left, which stopped after some of the models
StartFiles(n) ==
    {csv \cup {Checkpoint(i) : i \in 1 .. k} : csv \in {{}, {MetricsCsv}}, k \in 0 .. n}

\* loss_list, line 630
LossList(n_data) ==
    <<BetaHLoss_default,
      BtcvaeLoss_init(n_data, DefaultAlpha, DefaultBetaTC, DefaultGamma, FALSE,
                      DefaultRecordLossEvery, DefaultRecDist, DefaultStepsAnneal)>>

NoRun ==
    [fitted |-> {}, loaded |-> {}, computed |-> {}, made |-> <<0, 0>>, started |-> <<>>]

InitExperiment ==
    /\ \E op \in Experiments, n_runs \in 1 .. MaxRuns, lmo \in BOOLEAN, lme \in BOOLEAN :
          /\ (op = "mnist.pretext_task_sensitivity") => ~lme
          /\ \E f \in StartFiles(Len(Models(op, n_runs))) :
                /\ args = [op |-> op, n_runs |-> n_runs, load_models |-> lmo,
                           load_metrics |-> lme, files |-> f]
                /\ files = f
          /\ loss_f \in IF op = "mnist.disvae_feature_importance"
                        THEN {LossList(nd) : nd \in NDataSet} ELSE {NoLoss}
    /\ storer = EmptyLog
    /\ ret = [op |-> "experiment", err |-> "none", pc |-> "start",
              load_metrics |-> FALSE, model |-> 0, model_loaded |-> FALSE,
              results_df |-> FALSE]
    /\ hist = NoRun

ExpModels == Models(args.op, args.n_runs)

\* up to the test of load_metrics: lines 116-118 and 79-81 (coerced), 247
\* and 201 (as given), 646-657 (the header of metrics.csv is written when
\* the file is missing)
ExpStart ==
    /\ ret.op = "experiment" /\ ret.pc = "start"
    /\ \E lm \in {IF args.op \in CoercedExperiments
                  THEN args.load_metrics /\ MetricsCsv \in files
                  ELSE args.load_metrics} :
          ret' = [ret EXCEPT !.load_metrics = lm,
                             !.model = IF lm THEN 0 ELSE 1,
                             !.pc = IF lm THEN "read_metrics" ELSE "check"]
    /\ files' = IF args.op = "mnist.disvae_feature_importance"
                THEN files \cup {MetricsCsv} ELSE files
    /\ UNCHANGED <<args, loss_f, storer, hist>>

ModelLoaded_ignores_flag(load_models, is_file) == is_file

\* model_loaded after 'if load_models: if (save_dir / (name + ".pt")).is_file()'
ModelLoaded(load_models, is_file) == load_models /\ is_file

\* lines 669 and 681-688, 119-126, 435-442: loss.beta = beta, and whether
\* the model can be loaded
CheckModel ==
    /\ ret.op = "experiment" /\ ret.pc = "check"
    /\ \E ml \in {ModelLoaded(args.load_models, Checkpoint(ret.model) \in files)} :
          ret' = [ret EXCEPT !.model_loaded = ml,
                             !.pc = IF ml THEN "load" ELSE "fit"]
    /\ loss_f' = IF ExpModels[ret.model].loss = 0 THEN loss_f
                 ELSE [loss_f EXCEPT ![ExpModels[ret.model].loss].beta =
                                          ExpModels[ret.model].beta]
    /\ UNCHANGED <<args, storer, hist, files>>

LossForModel_fresh(loss_list, l) == [loss_list[l] EXCEPT !.n_train_steps = 0]

\* the loss the model of this iteration is built with: the object of loss_list
LossForModel(loss_list, l) == loss_list[l]

\* the loss object after k training invocations
AfterTraining(obj, k) ==
    LET acc[i \in 0 .. k] ==
            IF i = 0 THEN obj
            ELSE [acc[i - 1] EXCEPT
                     !.n_train_steps = pre_call(acc[i - 1], TRUE, NoneStorer).n_train_steps]
    IN  acc[k]

\* model.fit(device, train_loader, test_loader, save_dir, n_epochs): k
\* training invocations of the model's loss (one, or as many as the bound
\* allows), and <name>.pt saved
Fit ==
    /\ ret.op = "experiment" /\ ret.pc = "fit"
    /\ \E k \in {1, MaxFitSteps} :
          LET l == ExpModels[ret.model].loss
          IN  IF l = 0
              THEN /\ loss_f' = loss_f
                   /\ hist' = [hist EXCEPT !.fitted = @ \cup {ret.model}]
              ELSE /\ loss_f' = [loss_f EXCEPT
                                    ![l] = AfterTraining(LossForModel(loss_f, l), k)]
                   /\ hist' = [hist EXCEPT
                                  !.fitted = @ \cup {ret.model},
                                  !.made[l] = @ + k,
                                  !.started = Append(@,
                                      [model |-> ret.model, loss |-> l,
                                       counter |-> LossForModel(loss_f, l).n_train_steps,
                                       made |-> hist.made[l]])]
    /\ files' = files \cup {Checkpoint(ret.model)}
    /\ ret' = [ret EXCEPT !.pc = "load"]
    /\ UNCHANGED <<args, storer>>

\* model.load_state_dict(torch.load(save_dir / (name + ".pt")), strict=False)
LoadStateDict ==
    /\ ret.op = "experiment" /\ ret.pc = "load"
    /\ IF Checkpoint(ret.model) \in files
       THEN /\ hist' = [hist EXCEPT !.loaded = @ \cup {ret.model}]
            /\ ret' = [ret EXCEPT !.pc = "compute"]
       ELSE /\ hist' = hist
            /\ ret' = [ret EXCEPT !.pc = "failed", !.err = "FileNotFoundError"]
    /\ UNCHANGED <<args, loss_f, storer, files>>

\* the attributions and metrics of the model; then the next model, or the
\* end of the loop
ComputeMetrics ==
    /\ ret.op = "experiment" /\ ret.pc = "compute"
    /\ hist' = [hist EXCEPT !.computed = @ \cup {ret.model}]
    /\ files' = IF args.op = "mnist.disvae_feature_importance"
                THEN files \cup {MetricsCsv} ELSE files
    /\ ret' = IF ret.model < Len(ExpModels)
              THEN [ret EXCEPT !.model = @ + 1, !.pc = "check"]
              ELSE IF args.op \in ConsistencyExperiments
              THEN [ret EXCEPT !.pc = "save"]
              ELSE IF args.op = "mnist.disvae_feature_importance"
              THEN [ret EXCEPT !.pc = "read_metrics"]
              ELSE [ret EXCEPT !.pc = "plot", !.results_df = TRUE]
    /\ UNCHANGED <<args, loss_f, storer>>

\* results_df = pd.DataFrame(...); results_df.to_csv(save_dir / "metrics.csv")
SaveMetrics ==
    /\ ret.op = "experiment" /\ ret.pc = "save"
    /\ ret' = [ret EXCEPT !.results_df = TRUE, !.pc = "read_metrics"]
    /\ files' = files \cup {MetricsCsv}
    /\ UNCHANGED <<args, loss_f, storer, hist>>

\* 'if (save_dir / "metrics.csv").is_file(): results_df = pd.read_csv(...)'
\* with an else that only logs; pd.read_csv(csv_path) in disvae
ReadMetrics ==
    /\ ret.op = "experiment" /\ ret.pc = "read_metrics"
    /\ ret' = IF MetricsCsv \in files
              THEN [ret EXCEPT !.results_df = TRUE, !.pc = "plot"]
              ELSE IF args.op = "mnist.disvae_feature_importance"
              THEN [ret EXCEPT !.pc = "failed", !.err = "FileNotFoundError"]
              ELSE [ret EXCEPT !.pc = "plot"]
    /\ UNCHANGED <<args, loss_f, storer, hist, files>>

\* sns.lineplot(data=results_df, ...): reading a local that was never bound
Plot ==
    /\ ret.op = "experiment" /\ ret.pc = "plot"
    /\ ret' = IF ret.results_df
              THEN [ret EXCEPT !.pc = "done"]
              ELSE [ret EXCEPT !.pc = "failed", !.err = "UnboundLocalError"]
    /\ UNCHANGED <<args, loss_f, storer, hist, files>>

NextExperiment ==
    \/ ExpStart
    \/ CheckModel
    \/ Fit
    \/ LoadStateDict
    \/ ComputeMetrics
    \/ SaveMetrics
    \/ ReadMetrics
    \/ Plot

SpecExperiment == InitExperiment /\ [][NextExperiment]_vars


Disvae == ret.op = "experiment" /\ args.op = "mnist.disvae_feature_importance"

(* C28: in disvae_feature_importance the two objects of loss_list serve    *)
(* every model: the counter of each is the number of training calls made   *)
(* through it so far; when a fit starts, the counter of its loss is the    *)
(* number of training calls earlier models made through that object, and   *)
(* it is 0 only for the first model trained with that object.              *)
C28_CountersCarryOver ==
    Disvae =>
        /\ loss_f[1].kind = "betaH" /\ loss_f[2].kind = "btcvae"
        /\ \A l \in 1 .. 2 : loss_f[l].n_train_steps = hist.made[l]
        /\ \A j \in 1 .. Len(hist.started) :
               /\ hist.started[j].counter = hist.started[j].made
               /\ hist.started[j].counter = 0 <=>
                      ~\E i \in 1 .. j - 1 : hist.started[i].loss = hist.started[j].loss

\* the third model is the second one trained with the BetaHLoss object, and
\* its training starts at the counter the first one left
C28_Witness ==
    /\ Disvae /\ ret.pc = "done"
    /\ Len(hist.started) >= 3
    /\ hist.started[1].loss = 1 /\ hist.started[1].counter = 0
    /\ hist.started[3].loss = 1 /\ hist.started[3].model = 3
    /\ hist.started[3].counter = 2
    /\ loss_f[1].n_train_steps = 4

\* the run of a consistency experiment asked to load metrics that are not there
MetricsMissing ==
    /\ ret.op = "experiment" /\ args.op \in ConsistencyExperiments
    /\ args.load_metrics /\ MetricsCsv \notin args.files

(* C29 as stated: in the four consistency experiments the results table is *)
(* bound when the plot is drawn, and a run asked to load metrics that do   *)
(* not exist computes and writes them before it plots.                     *)
C29_TableDefined ==
    (ret.op = "experiment" /\ args.op \in ConsistencyExperiments) =>
        /\ ret.err # "UnboundLocalError"
        /\ ret.pc \in {"plot", "done"} => ret.results_df
        /\ (MetricsMissing /\ ret.pc \in {"plot", "done", "failed"}) =>
               hist.computed # {} /\ MetricsCsv \in files

\* what the code does: nothing is computed and the plot reads an unbound local
C29_Observed ==
    /\ MetricsMissing
    /\ args.op = "mnist.consistency_examples"
    /\ ret.pc = "failed" /\ ret.err = "UnboundLocalError"
    /\ hist.computed = {} /\ hist.fitted = {}
    /\ MetricsCsv \notin files

\* the run is over
RunOver == ret.op = "experiment" /\ ret.pc \in {"done", "failed"}

\* fit is to be invoked for model i: load_models is false or <name>.pt was
\* not in the saving directory
MustTrain(i) == ~args.load_models \/ Checkpoint(i) \notin args.files

(* C30 as stated: by the end of a run every model was trained exactly when *)
(* load_models is false or its checkpoint did not exist, and had its       *)
(* weights loaded from the checkpoint.                                     *)
C30_TrainOrLoad ==
    RunOver =>
        \A i \in 1 .. Len(ExpModels) :
            /\ i \in hist.fitted <=> MustTrain(i)
            /\ i \in hist.loaded

\* the run decided whether to train model i
Decided(i) == i < ret.model \/ (i = ret.model /\ ret.pc \notin {"check", "fit"})

(* C30 amended: every model the run reaches (it reaches none when          *)
(* load_metrics makes it skip the computation) is trained exactly when     *)
(* load_models is false or its checkpoint did not exist, its weights are   *)
(* then loaded from the checkpoint, and nothing is computed for a model    *)
(* whose weights were not loaded.                                          *)
C30_TrainOrLoadWhenReached ==
    ret.op = "experiment" =>
        \A i \in 1 .. Len(ExpModels) :
            /\ Decided(i) => (i \in hist.fitted <=> MustTrain(i))
            /\ ~Decided(i) => i \notin hist.fitted
            /\ (Decided(i) /\ (i < ret.model \/ ret.pc # "load")) => i \in hist.loaded
            /\ i \in hist.computed => i \in hist.loaded
            /\ i \in hist.loaded => Checkpoint(i) \in files
            /\ (ret.load_metrics /\ ret.pc # "start") => ~Decided(i)

\* a run that loads its first model and trains the others
C30_Witness ==
    /\ RunOver /\ ret.pc = "done"
    /\ args.op = "mnist.pretext_task_sensitivity"
    /\ args.load_models
    /\ Checkpoint(1) \in args.files /\ Checkpoint(2) \notin args.files
    /\ hist.fitted = {2, 3, 4}
    /\ hist.loaded = {1, 2, 3, 4} /\ hist.computed = {1, 2, 3, 4}

\* a run that loads its metrics trains nothing although load_models is false
C30_WitnessSkipped ==
    /\ RunOver /\ ret.pc = "done"
    /\ args.op = "mnist.consistency_feature_importance"
    /\ args.load_metrics /\ ~args.load_models
    /\ hist.fitted = {} /\ hist.loaded = {}

====
